---- MODULE Spec2Model ----
(***************************************************************************)
(* A model of graphql-server's protocol layer:                             *)
(*   - the multipart-subscription streamer of AsyncBaseHTTPView            *)
(*     (_stream_with_heartbeat / _get_stream) running on an asyncio event  *)
(*     loop (specification SpecStream),                                    *)
(*   - the request state machine of SyncBaseHTTPView.run and               *)
(*     AsyncBaseHTTPView.run over runtime.execute / execute_sync /         *)
(*     subscribe (specification SpecView),                                 *)
(*   - the legacy helpers run_http_query / encode_execution_results of     *)
(*     graphql_server/__init__.py (specifications SpecBatch, SpecEncode).  *)
(***************************************************************************)
EXTENDS Integers, Sequences, FiniteSets, TLC

VARIABLES
    \* ---- multipart streamer (async_base_view.py:433-557) ----
    queue,        \* asyncio.Queue contents, entries (raised, done, data)
    putters,      \* asyncio.Queue._putters: tasks blocked in queue.put, FIFO
    getters,      \* asyncio.Queue._getters: tasks blocked in queue.get, FIFO
    ready,        \* the event loop's FIFO of tasks whose next step is scheduled
    running,      \* the task whose step the event loop is running, or "none"
    pc,           \* per task: the statement it is at
    wait,         \* per task: what it is suspended on
    cancelReq,    \* per task: "no", "fut" (awaited future cancelled), "must" (_must_cancel)
    held,         \* the item the drain task is putting
    srcNext,      \* index of the next chunk stream() produces
    srcLen,       \* number of payload chunks the subscription yields
    srcRaiseAt,   \* index at which stream() raises instead of producing (0: never)
    srcOnCancel,  \* what stream() does when cancelled while suspended
    cancelling,   \* the nonlocal flag of _stream_with_heartbeat
    out,          \* chunks merged() has yielded to its consumer
    closed,       \* the consumer closed or cancelled merged()
    ctFrom,       \* which call of cancel_tasks is running: "raised" or "finally"
    exitHow,      \* how merged() ended
    hbCount,      \* heartbeat timer expirations so far
    \* ---- one request through SyncBaseHTTPView.run / AsyncBaseHTTPView.run ----
    vFlavor,      \* "sync" or "async": which base view handles the request
    vMethod,      \* request_adapter.method
    vAllowGet,    \* view.allow_queries_via_get
    vIde,         \* graphql_ide is set and should_render_graphql_ide(request)
    vContentType, \* the media type of request.content_type
    vUploads,     \* view.multipart_uploads_enabled
    vAccept,      \* the Accept header of the request
    vPc,          \* the stage of run() the request is at
    vReq,         \* request_data (GraphQLRequestData)
    vDoc,         \* the definitions parse(query) gives for the request's query
    vAllowed,     \* allowed_operation_types handed to execute_operation
    vSubStatus,   \* sub_response.status_code
    vResult,      \* the ExecutionResult of execute_operation
    vResp,        \* the response of run(), or the HTTPException it raised
    vValidated,   \* the operation type of the document the validation rules ran on, or "none"
    vExecuted,    \* "not_called" before execute_operation; then the operation type the engine ran, or "none"
    vRaised,      \* the exception execute_operation raised
    \* ---- one call of run_http_query (graphql_server/__init__.py:65-154) ----
    bMethod,      \* request_method
    bData,        \* data: a dict, a list of dicts, or something else
    bQueryData,   \* query_data
    bBatchEnabled,\* batch_enabled
    bCatch,       \* catch
    bExecutor,    \* how get_response is run: "sync", "thread" or "return_promise"
    bPc,          \* where the call is
    bParams,      \* all_params
    bPromises,    \* response_promises: per entry "pending" or the settled outcome
    bResults,     \* the results list of the returned ServerResults
    bRaised,      \* the HttpQueryError the call raised
    bExecLog,     \* the operations the engine executed, as (entry index, type), in execution order
    \* ---- one call of encode_execution_results (graphql_server/__init__.py:157-186) ----
    eResults,     \* execution_results
    eIsBatch,     \* is_batch
    ePc,          \* "call" before the call, "returned" or "raised" after it
    eResponse,    \* the ServerResponse (body, status_code)
    \* ---- one generator of _subscribe_generator (runtime.py:368-429) ----
    gPc,          \* "idle", "created", "at_item" / "at_error" (suspended at that yield), "finished"
    gSetup,       \* what graphql_subscribe gives: "aiter", "raises", "result_errors", "result_no_errors"
    gLen,         \* the number of results the underlying subscription produces
    gRaiseAt,     \* the __anext__ of the underlying subscription that raises (0: none)
    gExcClass,    \* the class of what is raised: "Exception" or "BaseException"
    gCloseRaises, \* aclose() of the underlying subscription raises an Exception
    gNext,        \* the number of the next __anext__ of the underlying subscription
    gOut,         \* the items the generator yielded to its consumer
    gRaised,      \* what a call of the consumer raised, or "none"
    gClosed,      \* the consumer called aclose()
    \* ---- one WebSocket connection of GraphQLWSConsumer (channels/consumer.py) ----
    wState,       \* "connecting", "open", "closed" (by the server), "disconnecting", "disconnected"
    wOffered,     \* scope["subprotocols"]: what the client offers, in its order
    wHandler,     \* self._handler: "none" while the attribute is not set
    wCloseCode,   \* the code the server closed the connection with
    wInit,        \* a connection_init message was received
    wTimer,       \* the connection-init timeout: "none", "pending", "fired"
    wClock,       \* minutes since connect
    wSubs,        \* the keys of self.subscriptions, in insertion order
    wRunning,     \* per operation id, the subscription tasks running under it
    wCleanup,     \* the ids handle_disconnect still has to clean up
    wLast,        \* the last message received, and whether its id was active
    wRaised       \* the exception a callback raised to its caller

svars == <<queue, putters, getters, ready, running, pc, wait, cancelReq, held,
           srcNext, srcLen, srcRaiseAt, srcOnCancel, cancelling, out, closed,
           ctFrom, exitHow, hbCount>>

vvars == <<vFlavor, vMethod, vAllowGet, vIde, vContentType, vUploads, vAccept,
           vPc, vReq, vDoc, vAllowed,
           vSubStatus, vResult, vResp, vValidated, vExecuted, vRaised>>

bvars == <<bMethod, bData, bQueryData, bBatchEnabled, bCatch, bExecutor, bPc,
           bParams, bPromises, bResults, bRaised, bExecLog>>

evars == <<eResults, eIsBatch, ePc, eResponse>>

gvars == <<gPc, gSetup, gLen, gRaiseAt, gExcClass, gCloseRaises, gNext, gOut,
           gRaised, gClosed>>

wvars == <<wState, wOffered, wHandler, wCloseCode, wInit, wTimer, wClock, wSubs,
           wRunning, wCleanup, wLast, wRaised>>

vars == <<svars, vvars, bvars, evars, gvars, wvars>>

----------------------------------------------------------------------------
\* Bounds of the model.
MaxPayloads == 2
MaxHeartbeats == 2

\* asyncio.Queue(maxsize=1)
QueueMaxSizeTwo == 1 + 1
QueueMaxSize == 1

Tasks == {"hb", "drain", "cons"}

\* The chunks of the stream.  encode_multipart_data({}, separator) is the
\* heartbeat part, encode_multipart_data({"payload": response}, separator) a
\* payload part, "\r\n--graphql--\r\n" the closing boundary.
Heartbeat == [kind |-> "heartbeat", n |-> 0]
Payload(i) == [kind |-> "payload", n |-> i]
Boundary == [kind |-> "boundary", n |-> 0]
NoData == [kind |-> "none", n |-> 0]
Exc == [kind |-> "exception", n |-> 0]

EntryNeverRaised(r, d, x) == [raised |-> FALSE, done |-> d, data |-> x]

\* The (raised, done, data) tuples of the queue.
Entry(r, d, x) == [raised |-> r, done |-> d, data |-> x]

\* What stream() of _get_stream yields when nothing raises: one payload part
\* per result of the subscription, then the closing boundary.
SourceChunksBoundaryFirst(len) ==
    [i \in 1..(len + 1) |-> IF i = 1 THEN Boundary ELSE Payload(i - 1)]

SourceChunks(len) == [i \in 1..(len + 1) |-> IF i <= len THEN Payload(i) ELSE Boundary]

TaskDoneNever(t) == FALSE

\* task.done()
TaskDone(t) == pc[t] \in {"finished", "cancelled", "failed"}

StreamIdle ==
    /\ queue = <<>>
    /\ putters = <<>>
    /\ getters = <<>>
    /\ ready = <<>>
    /\ running = "none"
    /\ pc = [t \in Tasks |-> "idle"]
    /\ wait = [t \in Tasks |-> "done"]
    /\ cancelReq = [t \in Tasks |-> "no"]
    /\ held = NoData
    /\ srcNext = 1
    /\ srcLen = 0
    /\ srcRaiseAt = 0
    /\ srcOnCancel = "propagate"
    /\ cancelling = FALSE
    /\ out = <<>>
    /\ closed = FALSE
    /\ ctFrom = "none"
    /\ exitHow = "none"
    /\ hbCount = 0

\* GraphQLRequestData before parse_http_body has built it.
NoRequest == [query |-> "unset", variables |-> "unset", operation_name |-> "unset",
              extensions |-> "unset", protocol |-> "unset"]

\* ExecutionResult(data, errors); "unset" before execution.
NoResult == [data |-> "unset", errors |-> <<>>]

\* No exception raised by execute_operation.
NoException == [kind |-> "none", op |-> "none", errors |-> <<>>]

NoResponse == [kind |-> "none", status |-> 0, reason |-> <<>>, headers |-> "none",
               hasData |-> FALSE,
               data |-> "unset", errors |-> <<>>, strict |-> FALSE]

ViewIdle ==
    /\ vFlavor = "none"
    /\ vMethod = "none"
    /\ vAllowGet = FALSE
    /\ vIde = FALSE
    /\ vContentType = "none"
    /\ vUploads = FALSE
    /\ vAccept = "none"
    /\ vPc = "idle"
    /\ vReq = NoRequest
    /\ vDoc = <<>>
    /\ vAllowed = {}
    /\ vSubStatus = 0
    /\ vResult = NoResult
    /\ vResp = NoResponse
    /\ vValidated = "none"
    /\ vExecuted = "not_called"
    /\ vRaised = NoException

\* No HttpQueryError.
NoHttpQueryError == [status |-> 0, message |-> <<>>, headers |-> "none"]

BatchIdle ==
    /\ bMethod = "none"
    /\ bData = [kind |-> "none", entries |-> <<>>]
    /\ bQueryData = "none"
    /\ bBatchEnabled = FALSE
    /\ bCatch = FALSE
    /\ bExecutor = "none"
    /\ bPc = "idle"
    /\ bParams = <<>>
    /\ bPromises = <<>>
    /\ bResults = <<>>
    /\ bRaised = NoHttpQueryError
    /\ bExecLog = <<>>

EncodeIdle ==
    /\ eResults = <<>>
    /\ eIsBatch = FALSE
    /\ ePc = "idle"
    /\ eResponse = [body |-> "unset", status_code |-> 0]

GenIdle ==
    /\ gPc = "idle"
    /\ gSetup = "none"
    /\ gLen = 0
    /\ gRaiseAt = 0
    /\ gExcClass = "Exception"
    /\ gCloseRaises = FALSE
    /\ gNext = 1
    /\ gOut = <<>>
    /\ gRaised = "none"
    /\ gClosed = FALSE

WsIdle ==
    /\ wState = "idle"
    /\ wOffered = <<>>
    /\ wHandler = "none"
    /\ wCloseCode = "none"
    /\ wInit = FALSE
    /\ wTimer = "none"
    /\ wClock = 0
    /\ wSubs = <<>>
    /\ wRunning = <<>>
    /\ wCleanup = <<>>
    /\ wLast = [type |-> "none", id |-> 0, active |-> FALSE]
    /\ wRaised = "none"

\* The consumer has just called merged().__anext__() for the first time.
StreamInit ==
    /\ queue = <<>>
    /\ putters = <<>>
    /\ getters = <<>>
    /\ ready = <<>>
    /\ running = "cons"
    /\ pc = [t \in Tasks |-> IF t = "cons" THEN "c_start"
                             ELSE IF t = "hb" THEN "h_start" ELSE "d_start"]
    /\ wait = [t \in Tasks |-> IF t = "cons" THEN "run" ELSE "unstarted"]
    /\ cancelReq = [t \in Tasks |-> "no"]
    /\ held = NoData
    /\ srcNext = 1
    /\ srcLen \in 0..MaxPayloads
    /\ srcRaiseAt \in 0..(srcLen + 1)
    /\ srcOnCancel \in {"propagate", "raise"}
    /\ cancelling = FALSE
    /\ out = <<>>
    /\ closed = FALSE
    /\ ctFrom = "none"
    /\ exitHow = "none"
    /\ hbCount = 0
    /\ ViewIdle
    /\ BatchIdle
    /\ EncodeIdle
    /\ GenIdle
    /\ WsIdle

----------------------------------------------------------------------------
\* The asyncio event loop.

\* BaseEventLoop._run_once: run the next scheduled step.
Dispatch ==
    /\ running = "none"
    /\ ready # <<>>
    /\ running' = Head(ready)
    /\ ready' = Tail(ready)
    /\ wait' = [wait EXCEPT ![Head(ready)] = "run"]
    /\ UNCHANGED <<queue, putters, getters, pc, cancelReq, held, srcNext, srcLen,
                   srcRaiseAt, srcOnCancel, cancelling, out, closed, ctFrom,
                   exitHow, hbCount>>
    /\ UNCHANGED <<vvars, bvars, evars, gvars, wvars>>

\* A task ends (returns, is cancelled or raises): its done callbacks are
\* scheduled, which wakes merged() when it awaits that task in cancel_tasks.
\* rdy and wt are the ready queue and the wait map after the step's other
\* effects.
Joiner(t) == IF t = "drain" THEN "join_drain" ELSE "join_hb"

EndTaskWith(t, how, rdy, wt) ==
    /\ pc' = [pc EXCEPT ![t] = how]
    /\ running' = "none"
    /\ cancelReq' = [cancelReq EXCEPT ![t] = "no"]
    /\ IF wt["cons"] = Joiner(t)
       THEN /\ ready' = Append(rdy, "cons")
            /\ wait' = [wt EXCEPT ![t] = "done", !["cons"] = "ready"]
       ELSE /\ ready' = rdy
            /\ wait' = [wt EXCEPT ![t] = "done"]

EndTask(t, how) == EndTaskWith(t, how, ready, wait)

QueuePutUnbounded(t, entry, next) ==
    /\ queue' = Append(queue, entry)
    /\ pc' = [pc EXCEPT ![t] = next]
    /\ IF getters # <<>>
       THEN /\ ready' = Append(ready, Head(getters))
            /\ getters' = Tail(getters)
            /\ wait' = [wait EXCEPT ![Head(getters)] = "ready"]
       ELSE UNCHANGED <<ready, getters, wait>>
    /\ UNCHANGED <<putters, running>>

\* asyncio.Queue.put(item) by task t, which continues at `next` once the item
\* is in the queue: while the queue is full the task waits on a putter future;
\* put_nowait wakes the first waiting getter.
QueuePut(t, entry, next) ==
    IF Len(queue) >= QueueMaxSize
    THEN /\ putters' = Append(putters, t)
         /\ wait' = [wait EXCEPT ![t] = "putter"]
         /\ running' = "none"
         /\ UNCHANGED <<queue, getters, ready, pc>>
    ELSE /\ queue' = Append(queue, entry)
         /\ pc' = [pc EXCEPT ![t] = next]
         /\ IF getters # <<>>
            THEN /\ ready' = Append(ready, Head(getters))
                 /\ getters' = Tail(getters)
                 /\ wait' = [wait EXCEPT ![Head(getters)] = "ready"]
            ELSE UNCHANGED <<ready, getters, wait>>
         /\ UNCHANGED <<putters, running>>

\* The except clause of asyncio.Queue.put when CancelledError arrives at
\* `await putter`: a putter that had already been woken passes the wake-up
\* on to the next putter; then the task ends cancelled.
PutCancelled(t) ==
    IF Len(queue) < QueueMaxSize /\ cancelReq[t] = "must" /\ putters # <<>>
    THEN /\ putters' = Tail(putters)
         /\ EndTaskWith(t, "cancelled", Append(ready, Head(putters)),
                        [wait EXCEPT ![Head(putters)] = "ready"])
    ELSE /\ UNCHANGED putters
         /\ EndTask(t, "cancelled")

Remove(seq, t) == SelectSeq(seq, LAMBDA x : x # t)

\* Task.cancel(): a task waiting on a pending future has that future
\* cancelled, which schedules its step; a task whose step is already
\* scheduled gets _must_cancel; a finished task is left alone.  Either way
\* CancelledError is thrown into the task at its next step.
CancelTask(t) ==
    IF TaskDone(t)
    THEN UNCHANGED <<ready, wait, cancelReq, putters>>
    ELSE IF wait[t] \in {"putter", "sleep", "source"}
    THEN /\ cancelReq' = [cancelReq EXCEPT ![t] = "fut"]
         /\ putters' = Remove(putters, t)
         /\ ready' = Append(ready, t)
         /\ wait' = [wait EXCEPT ![t] = "ready"]
    ELSE /\ cancelReq' = [cancelReq EXCEPT ![t] =
                              IF cancelReq[t] = "no" THEN "must" ELSE cancelReq[t]]
         /\ UNCHANGED <<ready, wait, putters>>

----------------------------------------------------------------------------
\* drain() of _stream_with_heartbeat.

DrainStart ==
    /\ running = "drain" /\ pc["drain"] = "d_start"
    /\ IF cancelReq["drain"] # "no"
       THEN EndTask("drain", "cancelled")
       ELSE /\ pc' = [pc EXCEPT !["drain"] = "d_next"]
            /\ UNCHANGED <<ready, wait, running, cancelReq>>
    /\ UNCHANGED <<queue, putters, getters, held, srcNext, srcLen, srcRaiseAt,
                   srcOnCancel, cancelling, out, closed, ctFrom, exitHow, hbCount>>
    /\ UNCHANGED <<vvars, bvars, evars, gvars, wvars>>

\* The except clause of drain(): `except Exception as e`.
DrainExcept ==
    IF ~cancelling
    THEN /\ pc' = [pc EXCEPT !["drain"] = "d_put_raised"]
         /\ held' = Exc
         /\ cancelReq' = [cancelReq EXCEPT !["drain"] = "no"]
         /\ UNCHANGED <<ready, wait, running>>
    ELSE /\ EndTask("drain", "failed")
         /\ UNCHANGED held

\* stream().__anext__() completes: the next payload part, the closing
\* boundary, the end of the stream, or an exception.
Produce ==
    IF srcRaiseAt = srcNext
    THEN /\ DrainExcept
         /\ UNCHANGED srcNext
    ELSE IF srcNext <= srcLen + 1
    THEN /\ held' = SourceChunks(srcLen)[srcNext]
         /\ srcNext' = srcNext + 1
         /\ pc' = [pc EXCEPT !["drain"] = "d_put_item"]
         /\ UNCHANGED <<ready, wait, running, cancelReq>>
    ELSE /\ pc' = [pc EXCEPT !["drain"] = "d_put_done"]
         /\ UNCHANGED <<held, srcNext, ready, wait, running, cancelReq>>

\* `async for item in stream()`: the call either completes at once or
\* suspends inside stream() (on the subscription or on process_result);
\* after the closing boundary stream() returns without awaiting anything.
DrainNext ==
    /\ running = "drain" /\ pc["drain"] = "d_next"
    /\ \/ Produce
       \/ /\ srcNext <= srcLen + 1
          /\ pc' = [pc EXCEPT !["drain"] = "d_src"]
          /\ wait' = [wait EXCEPT !["drain"] = "source"]
          /\ running' = "none"
          /\ UNCHANGED <<held, srcNext, ready, cancelReq>>
    /\ UNCHANGED <<queue, putters, getters, srcLen, srcRaiseAt, srcOnCancel,
                   cancelling, out, closed, ctFrom, exitHow, hbCount>>
    /\ UNCHANGED <<vvars, bvars, evars, gvars, wvars>>

\* The drain task resumes inside stream(): with a result, or with
\* CancelledError thrown in, which stream() lets through or answers with an
\* exception of its own.
DrainSrcResume ==
    /\ running = "drain" /\ pc["drain"] = "d_src"
    /\ IF cancelReq["drain"] # "no"
       THEN /\ IF srcOnCancel = "propagate"
               THEN /\ EndTask("drain", "cancelled")
                    /\ UNCHANGED held
               ELSE DrainExcept
            /\ UNCHANGED srcNext
       ELSE Produce
    /\ UNCHANGED <<queue, putters, getters, srcLen, srcRaiseAt, srcOnCancel,
                   cancelling, out, closed, ctFrom, exitHow, hbCount>>
    /\ UNCHANGED <<vvars, bvars, evars, gvars, wvars>>

\* await queue.put((False, False, item))
DrainPutItem ==
    /\ running = "drain" /\ pc["drain"] = "d_put_item"
    /\ IF cancelReq["drain"] # "no"
       THEN /\ PutCancelled("drain")
            /\ UNCHANGED <<queue, getters>>
       ELSE /\ QueuePut("drain", Entry(FALSE, FALSE, held), "d_next")
            /\ UNCHANGED cancelReq
    /\ UNCHANGED <<held, srcNext, srcLen, srcRaiseAt, srcOnCancel, cancelling,
                   out, closed, ctFrom, exitHow, hbCount>>
    /\ UNCHANGED <<vvars, bvars, evars, gvars, wvars>>

\* await queue.put((True, False, e))
DrainPutRaised ==
    /\ running = "drain" /\ pc["drain"] = "d_put_raised"
    /\ IF cancelReq["drain"] # "no"
       THEN /\ PutCancelled("drain")
            /\ UNCHANGED <<queue, getters>>
       ELSE /\ QueuePut("drain", Entry(TRUE, FALSE, held), "d_put_done")
            /\ UNCHANGED cancelReq
    /\ UNCHANGED <<held, srcNext, srcLen, srcRaiseAt, srcOnCancel, cancelling,
                   out, closed, ctFrom, exitHow, hbCount>>
    /\ UNCHANGED <<vvars, bvars, evars, gvars, wvars>>

\* await queue.put((False, True, None))
DrainPutDone ==
    /\ running = "drain" /\ pc["drain"] = "d_put_done"
    /\ IF cancelReq["drain"] # "no"
       THEN /\ PutCancelled("drain")
            /\ UNCHANGED <<queue, getters>>
       ELSE /\ QueuePut("drain", Entry(FALSE, TRUE, NoData), "d_return")
            /\ UNCHANGED cancelReq
    /\ UNCHANGED <<held, srcNext, srcLen, srcRaiseAt, srcOnCancel, cancelling,
                   out, closed, ctFrom, exitHow, hbCount>>
    /\ UNCHANGED <<vvars, bvars, evars, gvars, wvars>>

\* drain() returns in the same step as its last put.
DrainReturn ==
    /\ running = "drain" /\ pc["drain"] = "d_return"
    /\ EndTask("drain", "finished")
    /\ UNCHANGED <<queue, putters, getters, held, srcNext, srcLen, srcRaiseAt,
                   srcOnCancel, cancelling, out, closed, ctFrom, exitHow, hbCount>>
    /\ UNCHANGED <<vvars, bvars, evars, gvars, wvars>>

\* The subscription (or process_result) the drain task waits on completes.
SourceReady ==
    /\ running = "none" /\ wait["drain"] = "source"
    /\ ready' = Append(ready, "drain")
    /\ wait' = [wait EXCEPT !["drain"] = "ready"]
    /\ UNCHANGED <<queue, putters, getters, running, pc, cancelReq, held, srcNext,
                   srcLen, srcRaiseAt, srcOnCancel, cancelling, out, closed,
                   ctFrom, exitHow, hbCount>>
    /\ UNCHANGED <<vvars, bvars, evars, gvars, wvars>>

----------------------------------------------------------------------------
\* heartbeat() of _stream_with_heartbeat.

HbStart ==
    /\ running = "hb" /\ pc["hb"] = "h_start"
    /\ IF cancelReq["hb"] # "no"
       THEN EndTask("hb", "cancelled")
       ELSE /\ pc' = [pc EXCEPT !["hb"] = "h_put"]
            /\ UNCHANGED <<ready, wait, running, cancelReq>>
    /\ UNCHANGED <<queue, putters, getters, held, srcNext, srcLen, srcRaiseAt,
                   srcOnCancel, cancelling, out, closed, ctFrom, exitHow, hbCount>>
    /\ UNCHANGED <<vvars, bvars, evars, gvars, wvars>>

\* await queue.put((False, False, item))
HbPut ==
    /\ running = "hb" /\ pc["hb"] = "h_put"
    /\ IF cancelReq["hb"] # "no"
       THEN /\ PutCancelled("hb")
            /\ UNCHANGED <<queue, getters>>
       ELSE /\ QueuePut("hb", Entry(FALSE, FALSE, Heartbeat), "h_sleep")
            /\ UNCHANGED cancelReq
    /\ UNCHANGED <<held, srcNext, srcLen, srcRaiseAt, srcOnCancel, cancelling,
                   out, closed, ctFrom, exitHow, hbCount>>
    /\ UNCHANGED <<vvars, bvars, evars, gvars, wvars>>

\* await asyncio.sleep(5) suspends.
HbSleep ==
    /\ running = "hb" /\ pc["hb"] = "h_sleep"
    /\ pc' = [pc EXCEPT !["hb"] = "h_sleeping"]
    /\ wait' = [wait EXCEPT !["hb"] = "sleep"]
    /\ running' = "none"
    /\ UNCHANGED <<queue, putters, getters, ready, cancelReq, held, srcNext, srcLen,
                   srcRaiseAt, srcOnCancel, cancelling, out, closed, ctFrom,
                   exitHow, hbCount>>
    /\ UNCHANGED <<vvars, bvars, evars, gvars, wvars>>

\* The sleep ends (or CancelledError is thrown into it).
HbWake ==
    /\ running = "hb" /\ pc["hb"] = "h_sleeping"
    /\ IF cancelReq["hb"] # "no"
       THEN EndTask("hb", "cancelled")
       ELSE /\ pc' = [pc EXCEPT !["hb"] = "h_put"]
            /\ UNCHANGED <<ready, wait, running, cancelReq>>
    /\ UNCHANGED <<queue, putters, getters, held, srcNext, srcLen, srcRaiseAt,
                   srcOnCancel, cancelling, out, closed, ctFrom, exitHow, hbCount>>
    /\ UNCHANGED <<vvars, bvars, evars, gvars, wvars>>

\* The 5 second timer of the heartbeat expires.
TimerFire ==
    /\ running = "none" /\ wait["hb"] = "sleep"
    /\ hbCount < MaxHeartbeats
    /\ hbCount' = hbCount + 1
    /\ ready' = Append(ready, "hb")
    /\ wait' = [wait EXCEPT !["hb"] = "ready"]
    /\ UNCHANGED <<queue, putters, getters, running, pc, cancelReq, held, srcNext,
                   srcLen, srcRaiseAt, srcOnCancel, cancelling, out, closed,
                   ctFrom, exitHow>>
    /\ UNCHANGED <<vvars, bvars, evars, gvars, wvars>>

----------------------------------------------------------------------------
\* merged() of _stream_with_heartbeat, driven by its consumer (the
\* framework's streaming response).

\* asyncio.create_task(heartbeat()), asyncio.create_task(drain())
ConsStart ==
    /\ running = "cons" /\ pc["cons"] = "c_start"
    /\ ready' = ready \o <<"hb", "drain">>
    /\ wait' = [wait EXCEPT !["hb"] = "ready", !["drain"] = "ready"]
    /\ pc' = [pc EXCEPT !["cons"] = "c_check"]
    /\ UNCHANGED <<queue, putters, getters, running, cancelReq, held, srcNext,
                   srcLen, srcRaiseAt, srcOnCancel, cancelling, out, closed,
                   ctFrom, exitHow, hbCount>>
    /\ UNCHANGED <<vvars, bvars, evars, gvars, wvars>>

\* while not task.done():
ConsCheck ==
    /\ running = "cons" /\ pc["cons"] = "c_check"
    /\ IF TaskDone("drain")
       THEN /\ pc' = [pc EXCEPT !["cons"] = "c_finally"]
            /\ exitHow' = "loop_end"
       ELSE /\ pc' = [pc EXCEPT !["cons"] = "c_get"]
            /\ UNCHANGED exitHow
    /\ UNCHANGED <<queue, putters, getters, ready, running, wait, cancelReq, held,
                   srcNext, srcLen, srcRaiseAt, srcOnCancel, cancelling, out,
                   closed, ctFrom, hbCount>>
    /\ UNCHANGED <<vvars, bvars, evars, gvars, wvars>>

\* get_nowait wakes the first waiting putter.
WakePutter ==
    IF putters # <<>>
    THEN /\ ready' = Append(ready, Head(putters))
         /\ putters' = Tail(putters)
         /\ wait' = [wait EXCEPT ![Head(putters)] = "ready"]
    ELSE UNCHANGED <<ready, putters, wait>>

\* raised, done, data = await queue.get(), and what the loop body does with
\* the entry: break on the done signal, cancel_tasks and raise on a raised
\* entry, yield the data otherwise.
ConsGet ==
    /\ running = "cons" /\ pc["cons"] = "c_get"
    /\ IF cancelReq["cons"] # "no"
       THEN \* CancelledError at `await getter`
            /\ pc' = [pc EXCEPT !["cons"] = "c_finally"]
            /\ exitHow' = "cancelled"
            /\ cancelReq' = [cancelReq EXCEPT !["cons"] = "no"]
            /\ UNCHANGED <<queue, putters, getters, ready, running, wait, out, ctFrom>>
       ELSE IF queue = <<>>
       THEN /\ getters' = Append(getters, "cons")
            /\ wait' = [wait EXCEPT !["cons"] = "getter"]
            /\ running' = "none"
            /\ UNCHANGED <<queue, putters, ready, pc, cancelReq, out, ctFrom, exitHow>>
       ELSE /\ queue' = Tail(queue)
            /\ WakePutter
            /\ IF Head(queue).done
               THEN /\ pc' = [pc EXCEPT !["cons"] = "c_finally"]
                    /\ exitHow' = "break"
                    /\ UNCHANGED <<out, ctFrom>>
               ELSE IF Head(queue).raised
               THEN /\ pc' = [pc EXCEPT !["cons"] = "c_ct1"]
                    /\ ctFrom' = "raised"
                    /\ exitHow' = "raise"
                    /\ UNCHANGED out
               ELSE /\ out' = Append(out, Head(queue).data)
                    /\ pc' = [pc EXCEPT !["cons"] = "c_yield"]
                    /\ UNCHANGED <<ctFrom, exitHow>>
            /\ UNCHANGED <<getters, running, cancelReq>>
    /\ UNCHANGED <<held, srcNext, srcLen, srcRaiseAt, srcOnCancel, cancelling,
                   closed, hbCount>>
    /\ UNCHANGED <<vvars, bvars, evars, gvars, wvars>>

\* The consumer asks for the next chunk.
CallerNext ==
    /\ running = "cons" /\ pc["cons"] \in {"c_yield", "c_io"}
    /\ pc' = [pc EXCEPT !["cons"] = "c_check"]
    /\ UNCHANGED <<queue, putters, getters, ready, running, wait, cancelReq, held,
                   srcNext, srcLen, srcRaiseAt, srcOnCancel, cancelling, out,
                   closed, ctFrom, exitHow, hbCount>>
    /\ UNCHANGED <<vvars, bvars, evars, gvars, wvars>>

\* The consumer suspends while it sends the chunk it was given.
CallerSuspend ==
    /\ running = "cons" /\ pc["cons"] = "c_yield"
    /\ pc' = [pc EXCEPT !["cons"] = "c_io"]
    /\ wait' = [wait EXCEPT !["cons"] = "caller"]
    /\ running' = "none"
    /\ UNCHANGED <<queue, putters, getters, ready, cancelReq, held, srcNext, srcLen,
                   srcRaiseAt, srcOnCancel, cancelling, out, closed, ctFrom,
                   exitHow, hbCount>>
    /\ UNCHANGED <<vvars, bvars, evars, gvars, wvars>>

\* The consumer's send completes.
CallerIO ==
    /\ running = "none" /\ wait["cons"] = "caller"
    /\ ready' = Append(ready, "cons")
    /\ wait' = [wait EXCEPT !["cons"] = "ready"]
    /\ UNCHANGED <<queue, putters, getters, running, pc, cancelReq, held, srcNext,
                   srcLen, srcRaiseAt, srcOnCancel, cancelling, out, closed,
                   ctFrom, exitHow, hbCount>>
    /\ UNCHANGED <<vvars, bvars, evars, gvars, wvars>>

\* The consumer closes merged() while it is suspended at `yield data`
\* (client disconnect): GeneratorExit is raised at the yield.
CallerClose ==
    /\ running = "cons" /\ pc["cons"] \in {"c_yield", "c_io"}
    /\ closed' = TRUE
    /\ exitHow' = "closed"
    /\ pc' = [pc EXCEPT !["cons"] = "c_finally"]
    /\ UNCHANGED <<queue, putters, getters, ready, running, wait, cancelReq, held,
                   srcNext, srcLen, srcRaiseAt, srcOnCancel, cancelling, out,
                   ctFrom, hbCount>>
    /\ UNCHANGED <<vvars, bvars, evars, gvars, wvars>>

\* The consumer's task is cancelled while merged() waits in queue.get()
\* (client disconnect).
CallerCancel ==
    /\ running = "none" /\ pc["cons"] = "c_get"
    /\ wait["cons"] \in {"getter", "ready"}
    /\ cancelReq["cons"] = "no"
    /\ closed' = TRUE
    /\ IF wait["cons"] = "getter"
       THEN /\ getters' = Remove(getters, "cons")
            /\ ready' = Append(ready, "cons")
            /\ wait' = [wait EXCEPT !["cons"] = "ready"]
            /\ cancelReq' = [cancelReq EXCEPT !["cons"] = "fut"]
       ELSE /\ cancelReq' = [cancelReq EXCEPT !["cons"] = "must"]
            /\ UNCHANGED <<getters, ready, wait>>
    /\ UNCHANGED <<queue, putters, running, pc, held, srcNext, srcLen, srcRaiseAt,
                   srcOnCancel, cancelling, out, ctFrom, exitHow, hbCount>>
    /\ UNCHANGED <<vvars, bvars, evars, gvars, wvars>>

\* finally: await cancel_tasks()
ConsFinally ==
    /\ running = "cons" /\ pc["cons"] = "c_finally"
    /\ ctFrom' = "finally"
    /\ pc' = [pc EXCEPT !["cons"] = "c_ct1"]
    /\ UNCHANGED <<queue, putters, getters, ready, running, wait, cancelReq, held,
                   srcNext, srcLen, srcRaiseAt, srcOnCancel, cancelling, out,
                   closed, exitHow, hbCount>>
    /\ UNCHANGED <<vvars, bvars, evars, gvars, wvars>>

\* cancel_tasks: cancelling = True; task.cancel()
CancelDrain ==
    /\ running = "cons" /\ pc["cons"] = "c_ct1"
    /\ cancelling' = TRUE
    /\ CancelTask("drain")
    /\ pc' = [pc EXCEPT !["cons"] = "c_ct2"]
    /\ UNCHANGED <<queue, getters, running, held, srcNext, srcLen, srcRaiseAt,
                   srcOnCancel, out, closed, ctFrom, exitHow, hbCount>>
    /\ UNCHANGED <<vvars, bvars, evars, gvars, wvars>>

\* cancel_tasks: with contextlib.suppress(asyncio.CancelledError): await task
\* An exception of the drain task other than CancelledError is not
\* suppressed: it leaves cancel_tasks, and from the `if raised:` branch it
\* reaches the finally clause, which calls cancel_tasks again.
AwaitDrain ==
    /\ running = "cons" /\ pc["cons"] = "c_ct2"
    /\ IF ~TaskDone("drain")
       THEN /\ wait' = [wait EXCEPT !["cons"] = "join_drain"]
            /\ running' = "none"
            /\ UNCHANGED <<pc, ctFrom, exitHow>>
       ELSE IF pc["drain"] = "failed"
       THEN /\ exitHow' = "drain_exc"
            /\ IF ctFrom = "raised"
               THEN /\ pc' = [pc EXCEPT !["cons"] = "c_finally"]
                    /\ UNCHANGED <<wait, running>>
               ELSE /\ pc' = [pc EXCEPT !["cons"] = "c_exit"]
                    /\ wait' = [wait EXCEPT !["cons"] = "done"]
                    /\ running' = "none"
            /\ UNCHANGED ctFrom
       ELSE /\ pc' = [pc EXCEPT !["cons"] = "c_ct3"]
            /\ UNCHANGED <<wait, running, ctFrom, exitHow>>
    /\ UNCHANGED <<queue, putters, getters, ready, cancelReq, held, srcNext, srcLen,
                   srcRaiseAt, srcOnCancel, cancelling, out, closed, hbCount>>
    /\ UNCHANGED <<vvars, bvars, evars, gvars, wvars>>

\* cancel_tasks: heartbeat_task.cancel()
CancelHeartbeat ==
    /\ running = "cons" /\ pc["cons"] = "c_ct3"
    /\ CancelTask("hb")
    /\ pc' = [pc EXCEPT !["cons"] = "c_ct4"]
    /\ UNCHANGED <<queue, getters, running, held, srcNext, srcLen, srcRaiseAt,
                   srcOnCancel, cancelling, out, closed, ctFrom, exitHow, hbCount>>
    /\ UNCHANGED <<vvars, bvars, evars, gvars, wvars>>

\* cancel_tasks: with contextlib.suppress(asyncio.CancelledError): await
\* heartbeat_task; then cancel_tasks returns: `raise data` after the call in
\* the `if raised:` branch (which enters the finally clause), the end of
\* merged() after the call in the finally clause.
AwaitHeartbeat ==
    /\ running = "cons" /\ pc["cons"] = "c_ct4"
    /\ IF ~TaskDone("hb")
       THEN /\ wait' = [wait EXCEPT !["cons"] = "join_hb"]
            /\ running' = "none"
            /\ UNCHANGED pc
       ELSE IF ctFrom = "raised"
       THEN /\ pc' = [pc EXCEPT !["cons"] = "c_finally"]
            /\ UNCHANGED <<wait, running>>
       ELSE /\ pc' = [pc EXCEPT !["cons"] = "c_exit"]
            /\ wait' = [wait EXCEPT !["cons"] = "done"]
            /\ running' = "none"
    /\ UNCHANGED <<queue, putters, getters, ready, cancelReq, held, srcNext, srcLen,
                   srcRaiseAt, srcOnCancel, cancelling, out, closed, ctFrom,
                   exitHow, hbCount>>
    /\ UNCHANGED <<vvars, bvars, evars, gvars, wvars>>

StreamNext ==
    \/ Dispatch
    \/ DrainStart \/ DrainNext \/ DrainSrcResume \/ DrainPutItem
    \/ DrainPutRaised \/ DrainPutDone \/ DrainReturn \/ SourceReady
    \/ HbStart \/ HbPut \/ HbSleep \/ HbWake \/ TimerFire
    \/ ConsStart \/ ConsCheck \/ ConsGet \/ CallerNext \/ CallerSuspend
    \/ CallerIO \/ CallerClose \/ CallerCancel \/ ConsFinally
    \/ CancelDrain \/ AwaitDrain \/ CancelHeartbeat \/ AwaitHeartbeat

SpecStream == StreamInit /\ [][StreamNext]_vars

\* The streamer with a consumer that keeps reading: it neither closes
\* merged() nor is cancelled.
ReadingNext ==
    \/ Dispatch
    \/ DrainStart \/ DrainNext \/ DrainSrcResume \/ DrainPutItem
    \/ DrainPutRaised \/ DrainPutDone \/ DrainReturn \/ SourceReady
    \/ HbStart \/ HbPut \/ HbSleep \/ HbWake \/ TimerFire
    \/ ConsStart \/ ConsCheck \/ ConsGet \/ CallerNext \/ CallerSuspend
    \/ CallerIO \/ ConsFinally
    \/ CancelDrain \/ AwaitDrain \/ CancelHeartbeat \/ AwaitHeartbeat

\* The event loop runs whatever is ready (call_soon is first in, first out,
\* so every scheduled task gets its turn), timers and I/O complete, and the
\* consumer asks for the next chunk.
SpecStreamFair == StreamInit /\ [][ReadingNext]_vars /\ WF_vars(ReadingNext)

----------------------------------------------------------------------------
\* Properties of the multipart streamer.

\* The chunks of the source stream among those yielded (heartbeats left out).
SourcePart(seq) == SelectSeq(seq, LAMBDA c : c.kind # "heartbeat")

IsPrefix(a, b) == Len(a) <= Len(b) /\ \A i \in 1..Len(a) : a[i] = b[i]

\* C1: when the consumer neither closes nor cancels merged() and the source
\* stream raises nothing, the chunks of the source stream that merged() has
\* yielded are always a prefix of what the source produces (each once, in
\* production order), and when merged() ends they are all of them, the
\* closing boundary last: the final message is never missed, also when the
\* loop ends on the task.done() check.
C1_AllChunksInOrder ==
    (srcRaiseAt = 0 /\ ~closed) =>
        /\ IsPrefix(SourcePart(out), SourceChunks(srcLen))
        /\ (pc["cons"] = "c_exit" =>
               /\ SourcePart(out) = SourceChunks(srcLen)
               /\ SourcePart(out)[Len(SourcePart(out))] = Boundary)

\* merged() ended on the task.done() check (not on the done signal) after
\* the drain task delivered payloads and the closing boundary.
C1_Witness ==
    /\ pc["cons"] = "c_exit" /\ exitHow = "loop_end"
    /\ srcRaiseAt = 0 /\ ~closed /\ srcLen >= 2
    /\ SourcePart(out) = SourceChunks(srcLen)

\* C2: when the consumer closes or cancels merged(), both the drain task and
\* the heartbeat task have ended by the time merged() exits.
C2_TasksEndedAtExit ==
    (pc["cons"] = "c_exit" /\ closed) => (TaskDone("drain") /\ TaskDone("hb"))

\* The same, for a source stream that lets CancelledError through.
C2_TasksEndedWhenSourcePropagates ==
    (pc["cons"] = "c_exit" /\ closed /\ srcOnCancel = "propagate")
        => (TaskDone("drain") /\ TaskDone("hb"))

\* The index of the first x in seq from i on, or 0.
RECURSIVE FirstIndex(_, _, _)
FirstIndex(seq, x, i) ==
    IF i > Len(seq) THEN 0
    ELSE IF seq[i] = x THEN i
    ELSE FirstIndex(seq, x, i + 1)

\* The chunks merged() yielded after the closing boundary.
AfterBoundary ==
    LET k == FirstIndex(out, Boundary, 1) IN
    IF k = 0 THEN <<>> ELSE SubSeq(out, k + 1, Len(out))

\* C14 as stated: after the closing boundary chunk merged() yields at most
\* one further chunk.
C14_AtMostOneChunkAfterBoundary ==
    Len(AfterBoundary) <= 1

\* C14: every chunk merged() yields after the closing boundary chunk is a
\* heartbeat, never a payload chunk, a second boundary or the done signal;
\* there may be more than one of them.
C14_OnlyHeartbeatsAfterBoundary ==
    \A i \in DOMAIN AfterBoundary : AfterBoundary[i] = Heartbeat

\* merged() ended after it yielded one heartbeat behind the closing
\* boundary of a stream with payloads.
C14_Witness ==
    /\ pc["cons"] = "c_exit" /\ ~closed /\ srcRaiseAt = 0
    /\ srcLen >= 1
    /\ AfterBoundary = <<Heartbeat>>

\* stream() has produced the closing boundary: the source stream finished
\* without raising.
SourceFinished == srcRaiseAt = 0 /\ srcNext > srcLen + 1

\* merged() has ended behind the closing boundary with both tasks over.
EndedAfterBoundary ==
    /\ pc["cons"] = "c_exit"
    /\ FirstIndex(out, Boundary, 1) # 0
    /\ pc["drain"] \in {"finished", "cancelled", "failed"}
    /\ pc["hb"] \in {"finished", "cancelled", "failed"}

SourceInQueue == SelectSeq(queue, LAMBDA e : ~e.done /\ e.data # Heartbeat)

\* The consumer has dequeued the final message of stream(): the closing
\* boundary, or the exception stream() raised.
FinalMessageDequeued ==
    \/ \E i \in DOMAIN out : out[i] = Boundary
    \/ exitHow = "raise"

\* C27: the queue never holds more than one entry; at most one chunk of
\* stream() is in the queue and at most one more is held by the drain task
\* waiting to put it; the loop of merged() sees the drain task done only
\* when it has returned, and when the drain task has returned the consumer
\* has dequeued the final message of stream().
C27_SingleSlotQueue ==
    /\ Len(queue) <= 1
    /\ Len(SourceInQueue) <= 1
    /\ (srcNext - 1) - Len(SourcePart(out)) <= 2
    /\ (TaskDone("drain") /\ ~cancelling) => pc["drain"] = "finished"
    /\ pc["drain"] = "finished" => SourceInQueue = <<>> /\ FinalMessageDequeued

\* The drain task waits to put the second payload while the first one is in
\* the queue.
C27_Witness ==
    /\ wait["drain"] = "putter"
    /\ pc["drain"] = "d_put_item"
    /\ held = Payload(2)
    /\ queue = <<Entry(FALSE, FALSE, Payload(1))>>

\* The loop of merged() found the drain task done after the closing
\* boundary of a stream of two payloads had been yielded.
C27_WitnessDone ==
    /\ pc["drain"] = "finished"
    /\ exitHow = "loop_end"
    /\ SourcePart(out) = SourceChunks(2)

\* The chunks stream() produces before it raises.
ChunksBeforeFailure == SubSeq(SourceChunks(srcLen), 1, srcRaiseAt - 1)

\* merged() is past the cancel_tasks call of its `if raised:` branch, at
\* `raise data` or later.
ExceptionReraised ==
    /\ exitHow = "raise"
    /\ ctFrom = "finally" \/ pc["cons"] \in {"c_finally", "c_exit"}

\* What holds in every state of a stream whose source raises at chunk
\* srcRaiseAt while the consumer keeps reading.
SourceFailureHandled ==
    (srcRaiseAt # 0 /\ ~closed) =>
        /\ IsPrefix(SourcePart(out), ChunksBeforeFailure)
        /\ exitHow \in {"none", "raise"}
        /\ exitHow = "raise" => SourcePart(out) = ChunksBeforeFailure
        /\ ExceptionReraised => pc["drain"] = "cancelled" /\ pc["hb"] = "cancelled"

\* C28: when stream() raises an exception while the consumer keeps reading,
\* the consumer is given every chunk produced before the failure, in order,
\* then merged() cancels and awaits the drain task and the heartbeat task
\* and re-raises the exception; it ends in no other way, and from the moment
\* the raised entry is dequeued nothing more is yielded.
C28_SourceExceptionReraised ==
    /\ []SourceFailureHandled
    /\ [][exitHow = "raise" => out' = out]_vars

\* merged() re-raised the exception of a stream that failed after two
\* payloads, both of which the consumer had been given.
C28_Witness ==
    /\ pc["cons"] = "c_exit"
    /\ exitHow = "raise"
    /\ ~closed
    /\ srcLen = 2 /\ srcRaiseAt = 3
    /\ SourcePart(out) = <<Payload(1), Payload(2)>>
    /\ pc["drain"] = "cancelled" /\ pc["hb"] = "cancelled"

----------------------------------------------------------------------------
\* The execution bridge (runtime.py) and one request through
\* SyncBaseHTTPView.run / AsyncBaseHTTPView.run.

\* Bounds of the model.
MaxDefs == 2
MaxValidationErrors == 1

\* HTTPMethod values the request adapter may report.
Methods == {"GET", "POST", "PUT", "OPTIONS"}

OperationTypes == {"query", "mutation", "subscription"}

\* The definitions of a parsed document: operations (anonymous or named) and
\* fragments.
Definitions ==
    {[name |-> "none", op |-> "query"], [name |-> "none", op |-> "mutation"],
     [name |-> "A", op |-> "query"], [name |-> "B", op |-> "mutation"],
     [name |-> "S", op |-> "subscription"], [name |-> "F", op |-> "fragment"]}

SeqsUpTo(S, n) == UNION {[1..k -> S] : k \in 0..n}

\* A document that parses has at least one definition.
Documents == SeqsUpTo(Definitions, MaxDefs) \ {<<>>}

\* operationName as the request gives it: absent, a name, or a JSON value
\* that is not a string.
OperationNames == {"none", "A", "B", "S", "NOT_A_STRING"}

\* Errors are (message, has path).
Error(m, p) == [msg |-> m, path |-> p]

MsgMultipleOperations == "Must provide operation name if query contains multiple operations."

Outcome(k, o, m, errs, val) ==
    [kind |-> k, op |-> o, msg |-> m, errors |-> errs, validated |-> val]

\* The loop of _get_operation_type over document.definitions.
RECURSIVE ScanDefinitions(_, _, _, _)
ScanDefinitions(defs, i, operation_name, operation) ==
    IF i > Len(defs)
    THEN Outcome("ok", operation, "", <<>>, FALSE)
    ELSE IF defs[i].op = "fragment"
    THEN ScanDefinitions(defs, i + 1, operation_name, operation)
    ELSE IF operation_name = "none"
    THEN IF operation # "none"
         THEN Outcome("Exception", "none", MsgMultipleOperations, <<>>, FALSE)
         ELSE ScanDefinitions(defs, i + 1, operation_name, defs[i].op)
    ELSE IF defs[i].name # "none" /\ defs[i].name = operation_name
    THEN ScanDefinitions(defs, i + 1, operation_name, defs[i].op)
    ELSE ScanDefinitions(defs, i + 1, operation_name, operation)

\* _get_operation_type(document, operation_name)
GetOperationType(defs, operation_name) ==
    IF operation_name = "NOT_A_STRING"
    THEN Outcome("GraphQLError", "none", "Must provide a valid operation name.", <<>>, FALSE)
    ELSE LET scan == ScanDefinitions(defs, 1, operation_name, "none") IN
         IF scan.kind # "ok"
         THEN scan
         ELSE IF scan.op = "none"
         THEN IF operation_name # "none"
              THEN Outcome("GraphQLError", "none", "Unknown operation named", <<>>, FALSE)
              ELSE Outcome("GraphQLError", "none", "Can't get GraphQL operation type", <<>>, FALSE)
         ELSE scan

\* The errors validate(schema, document) returns: n violations.
ValidationErrors(n) == [i \in 1..n |-> Error("validation", FALSE)]

\* InvalidOperationTypeError.format_operation_type
FormatOperationType(op) ==
    IF op = "query" THEN "queries"
    ELSE IF op = "mutation" THEN "mutations" ELSE "subscriptions"

TypeAllowedAlways(op, allowed) == TRUE

\* The check of the operation type against allowed_operation_types in
\* _parse_and_validate.
TypeAllowed(op, allowed) == op \in allowed

\* _parse_and_validate(schema, query, allowed_operation_types, ...,
\* operation_name): the document, or the exception raised.  nval is the
\* number of violations the validation rules find in the document.  The
\* message of InvalidOperationTypeError is "<kinds> are not allowed." and,
\* when allowed_operation_types is not empty, " Only <kinds> are allowed."
\* over the allowed types (`only`).
ParseAndValidate(query, defs, allowed, operation_name, nval) ==
    IF query = "none"
    THEN Outcome("GraphQLError", "none", "No GraphQL query found in the request", <<>>, FALSE)
    ELSE IF query = "syntax_error"
    THEN Outcome("GraphQLValidationError", "none", "Validation failed",
                 <<Error("Syntax Error", FALSE)>>, FALSE)
    ELSE LET t == GetOperationType(defs, operation_name) IN
         IF t.kind # "ok"
         THEN t
         ELSE IF ~TypeAllowed(t.op, allowed)
         THEN [kind |-> "InvalidOperationTypeError", op |-> t.op, msg |-> "are not allowed.",
               only |-> {FormatOperationType(a) : a \in allowed},
               errors |-> <<>>, validated |-> FALSE]
         ELSE IF nval > 0
         THEN Outcome("GraphQLValidationError", t.op, "Validation failed",
                      ValidationErrors(nval), TRUE)
         ELSE Outcome("ok", t.op, "", <<>>, TRUE)

\* What the engine's execute does with a valid document.
EngineOutcomes == {"data", "field_errors", "raises_exception", "raises_graphql_error"}

ReraisedNever(kind) == FALSE

\* `except GraphQLError: raise` of execute / execute_sync: GraphQLError and
\* its subclasses GraphQLValidationError and InvalidOperationTypeError leave
\* the function; `except Exception` takes every other exception.
Reraised(kind) ==
    kind \in {"GraphQLError", "GraphQLValidationError", "InvalidOperationTypeError"}

\* execute / execute_sync: _parse_and_validate, then the engine;
\* `except GraphQLError: raise`, any other exception becomes a result with
\* data=None and the coerced error.
Execute(query, defs, allowed, operation_name, nval, engine) ==
    LET pv == ParseAndValidate(query, defs, allowed, operation_name, nval) IN
    IF pv.kind # "ok" /\ ~Reraised(pv.kind)
    THEN [kind |-> "result", op |-> pv.op, msg |-> "",
          result |-> [data |-> "none", errors |-> <<Error(pv.msg, FALSE)>>],
          validated |-> pv.validated, executed |-> "none"]
    ELSE IF pv.kind # "ok"
    THEN [kind |-> pv.kind, op |-> pv.op, msg |-> pv.msg,
          result |-> [data |-> "none", errors |-> pv.errors],
          validated |-> pv.validated, executed |-> "none"]
    ELSE IF engine = "data"
    THEN [kind |-> "result", op |-> pv.op, msg |-> "",
          result |-> [data |-> "some", errors |-> <<>>],
          validated |-> TRUE, executed |-> pv.op]
    ELSE IF engine = "field_errors"
    THEN [kind |-> "result", op |-> pv.op, msg |-> "",
          result |-> [data |-> "none", errors |-> <<Error("field", TRUE)>>],
          validated |-> TRUE, executed |-> pv.op]
    ELSE IF engine = "raises_exception"
    THEN [kind |-> "result", op |-> pv.op, msg |-> "",
          result |-> [data |-> "none", errors |-> <<Error("engine", FALSE)>>],
          validated |-> TRUE, executed |-> pv.op]
    ELSE IF ~Reraised("GraphQLError")
    THEN [kind |-> "result", op |-> pv.op, msg |-> "",
          result |-> [data |-> "none", errors |-> <<Error("engine", FALSE)>>],
          validated |-> TRUE, executed |-> pv.op]
    ELSE [kind |-> "GraphQLError", op |-> pv.op, msg |-> "engine",
          result |-> [data |-> "none", errors |-> <<>>],
          validated |-> TRUE, executed |-> pv.op]

\* subscribe: _parse_and_validate restricted to SUBSCRIPTION, outside any
\* try; then the generator _subscribe_generator.
Subscribe(query, defs, operation_name, nval) ==
    LET pv == ParseAndValidate(query, defs, {"subscription"}, operation_name, nval) IN
    IF pv.kind # "ok"
    THEN [kind |-> pv.kind, op |-> pv.op, msg |-> pv.msg,
          result |-> [data |-> "none", errors |-> pv.errors],
          validated |-> pv.validated, executed |-> "none"]
    ELSE [kind |-> "stream", op |-> pv.op, msg |-> "",
          result |-> [data |-> "none", errors |-> <<>>],
          validated |-> TRUE, executed |-> pv.op]

OperationTypeFromHttpAll(method) == {"query", "mutation", "subscription"}

\* operation_type_from_http(method)
\* (any other method raises ValueError; run() rejects those methods before)
OperationTypeFromHttp(method) ==
    IF method = "GET" THEN {"query", "subscription"}
    ELSE IF method = "POST" THEN {"query", "mutation", "subscription"}
    ELSE {}

\* InvalidOperationTypeError.as_http_error_reason(method)
AsHttpErrorReason(op, method) ==
    <<FormatOperationType(op), "are not allowed when using", method>>

\* BaseView.is_request_allowed
IsRequestAllowed(method) == method \in {"GET", "POST"}

\* raise HTTPException(status, reason): the exception carries a status code
\* and a reason, from which the integrations build the error response.
HTTPException(status, reason) ==
    [kind |-> "http_error", status |-> status, reason |-> reason, headers |-> "none",
     hasData |-> FALSE,
     data |-> "unset", errors |-> <<>>, strict |-> FALSE]

\* process_result(result, strict) followed by create_response: the body
\* {data?, errors?}, the status of sub_response and the content type.
CreateResponse(result, strict, status) ==
    [kind |-> "json", status |-> status, reason |-> <<>>, headers |-> "none",
     hasData |-> ~(strict /\ result.data = "none"),
     data |-> IF strict /\ result.data = "none" THEN "unset" ELSE result.data,
     errors |-> result.errors, strict |-> strict]

\* Values of the Accept header: one without the strict media type, the
\* strict media type alone ("application/graphql-response+json"), a list
\* naming it after another type ("application/json,
\* application/graphql-response+json"), and the multipart subscription type
\* ("multipart/mixed;boundary=graphql;subscriptionSpec=1.0").
Accepts == {"any", "strict", "json_then_strict", "multipart"}

\* `"application/graphql-response+json" in accept_type` where accept_type is
\* the header text: a substring test.
ContainsStrictType(accept) == accept \in {"strict", "json_then_strict"}

\* `"application/graphql-response+json" in accept_type` where accept_type is
\* the pair parse_content_type(accept) returns: the media type of the header
\* is the strict type.
MediaTypeIsStrictType(accept) == accept = "strict"

\* The protocol parse_http_body negotiates from the Accept header; the sync
\* view has no multipart-subscription protocol.
Protocol(flavor, accept) ==
    IF flavor = "async"
    THEN IF accept = "multipart" THEN "multipart-subscription"
         ELSE IF MediaTypeIsStrictType(accept) THEN "http-strict"
         ELSE "http"
    ELSE IF ContainsStrictType(accept) THEN "http-strict"
    ELSE "http"

\* The media types of the Content-Type header: the four the HTTP surface
\* names, the multipart subscription type, another type, and no header.
ContentTypes ==
    {"application/json", "application/graphql", "application/x-www-form-urlencoded",
     "multipart/form-data", "multipart/mixed", "text/plain", "none"}

\* The if/elif chain of parse_http_body: which parser reads the request, or
\* which HTTPException(400) is raised instead.
BodyParser(flavor, method, content_type, multipart_uploads_enabled) ==
    IF method = "GET" THEN "parse_query_params"
    ELSE IF content_type = "application/json" THEN "parse_json"
    ELSE IF multipart_uploads_enabled /\ content_type = "multipart/form-data"
    THEN "parse_multipart"
    ELSE IF flavor = "sync" /\ content_type = "multipart/mixed"
    THEN "multipart_subscription"
    ELSE "unsupported"

\* What reading the body can run into: it parses, json.loads fails, a file of
\* the upload map is missing, the content type is not supported, or (sync)
\* the body is a multipart subscription.
BodyKinds(parser) ==
    IF parser \in {"parse_query_params", "parse_json"} THEN {"parsed", "JSONDecodeError"}
    ELSE IF parser = "parse_multipart" THEN {"parsed", "JSONDecodeError", "KeyError"}
    ELSE {parser}

\* A JSON value of the "variables" / "extensions" key: absent or null, an
\* object, an array, or the scalar false.
JsonValues == {"none", "dict", "list", "false"}

IsJsonObjectOrNoneAlways(value) == TRUE

IsJsonObjectOrNoneTruthy(value) == value \in {"none", "dict", "false"}

\* `value is not None and not isinstance(value, dict)`, negated.
IsJsonObjectOrNone(value) == value \in {"none", "dict"}

ValidationErrorResultEmpty(errors) == [data |-> "none", errors |-> <<>>]

\* ExecutionResult(data=None, errors=e.errors)
ValidationErrorResult(errors) == [data |-> "none", errors |-> errors]

\* run() reads the IDE setting only for GET; a request without a body carries
\* no Content-Type; parse_http_body reads multipart_uploads_enabled only when
\* it tests for multipart/form-data.
ViewInit ==
    /\ vFlavor \in {"sync", "async"}
    /\ vMethod \in Methods
    /\ vAllowGet \in BOOLEAN
    /\ vIde \in (IF vMethod = "GET" THEN BOOLEAN ELSE {FALSE})
    /\ vContentType \in (IF vMethod = "POST" THEN ContentTypes ELSE {"none"})
    /\ vUploads \in (IF vContentType = "multipart/form-data" THEN BOOLEAN ELSE {FALSE})
    /\ vAccept \in Accepts
    /\ vPc = "start"
    /\ vReq = NoRequest
    /\ vDoc = <<>>
    /\ vAllowed = {}
    /\ vSubStatus = 0
    /\ vResult = NoResult
    /\ vResp = NoResponse
    /\ vValidated = "none"
    /\ vExecuted = "not_called"
    /\ vRaised = NoException
    /\ StreamIdle
    /\ BatchIdle
    /\ EncodeIdle
    /\ GenIdle
    /\ WsIdle

\* run(): the CORS preflight answer, is_request_allowed, get_sub_response.
VBegin ==
    /\ vPc = "start"
    /\ IF vMethod = "OPTIONS"
       THEN /\ vResp' = HTTPException(200, <<>>)
            /\ vPc' = "done"
            /\ UNCHANGED vSubStatus
       ELSE IF ~IsRequestAllowed(vMethod)
       THEN /\ vResp' = HTTPException(405, <<"GraphQL only supports GET and POST requests.">>)
            /\ vPc' = "done"
            /\ UNCHANGED vSubStatus
       ELSE /\ vSubStatus' = 200
            /\ vPc' = "parse"
            /\ UNCHANGED vResp
    /\ UNCHANGED <<vFlavor, vMethod, vAllowGet, vIde, vContentType, vUploads, vAccept,
                   vReq, vDoc, vAllowed, vResult,
                   vValidated, vExecuted, vRaised>>
    /\ UNCHANGED <<svars, bvars, evars, gvars, wvars>>

\* run(): parse_http_body and the two except clauses around it.
VParseHttpBody ==
    /\ vPc = "parse"
    /\ \E body \in BodyKinds(BodyParser(vFlavor, vMethod, vContentType, vUploads)),
          query \in {"none", "syntax_error", "text"}, operation_name \in OperationNames,
          variables \in JsonValues, extensions \in JsonValues :
          IF body = "parsed"
          THEN /\ vReq' = [query |-> query, variables |-> variables,
                           operation_name |-> operation_name, extensions |-> extensions,
                           protocol |-> Protocol(vFlavor, vAccept)]
               /\ vPc' = "check"
               /\ UNCHANGED vResp
          ELSE /\ vResp' = HTTPException(400,
                     IF body = "JSONDecodeError" THEN <<"Unable to parse request body as JSON">>
                     ELSE IF body = "KeyError" THEN <<"File(s) missing in form data">>
                     ELSE IF body = "multipart_subscription"
                     THEN <<"Multipart subscriptions are not supported in sync mode">>
                     ELSE <<"Unsupported content type">>)
               /\ vPc' = "done"
               /\ UNCHANGED vReq
    /\ UNCHANGED <<vFlavor, vMethod, vAllowGet, vIde, vContentType, vUploads, vAccept,
                   vDoc, vAllowed, vSubStatus, vResult,
                   vValidated, vExecuted, vRaised>>
    /\ UNCHANGED <<svars, bvars, evars, gvars, wvars>>

\* run(): variables and extensions must be JSON objects when given.
VCheckRequestData ==
    /\ vPc = "check"
    /\ IF ~IsJsonObjectOrNone(vReq.variables)
       THEN /\ vResp' = HTTPException(400, <<"Variables must be a JSON object">>)
            /\ vPc' = "done"
       ELSE IF ~IsJsonObjectOrNone(vReq.extensions)
       THEN /\ vResp' = HTTPException(400, <<"Extensions must be a JSON object">>)
            /\ vPc' = "done"
       ELSE /\ vPc' = "allow"
            /\ UNCHANGED vResp
    /\ UNCHANGED <<vFlavor, vMethod, vAllowGet, vIde, vContentType, vUploads, vAccept,
                   vReq, vDoc, vAllowed, vSubStatus,
                   vResult, vValidated, vExecuted, vRaised>>
    /\ UNCHANGED <<svars, bvars, evars, gvars, wvars>>

\* run(): allowed_operation_types, and the GraphQL IDE for a GET request.
VAllowedOperationTypes ==
    /\ vPc = "allow"
    /\ vAllowed' = IF vMethod = "GET" /\ ~vAllowGet
                   THEN OperationTypeFromHttp(vMethod) \ {"query"}
                   ELSE OperationTypeFromHttp(vMethod)
    /\ IF vMethod = "GET" /\ vIde
       THEN /\ vResp' = [NoResponse EXCEPT !.kind = "html", !.status = 200]
            /\ vPc' = "done"
       ELSE /\ vPc' = "execute"
            /\ UNCHANGED vResp
    /\ UNCHANGED <<vFlavor, vMethod, vAllowGet, vIde, vContentType, vUploads, vAccept,
                   vReq, vDoc, vSubStatus,
                   vResult, vValidated, vExecuted, vRaised>>
    /\ UNCHANGED <<svars, bvars, evars, gvars, wvars>>

\* run(): execute_operation and the except clauses around it.
VExecuteOperation ==
    /\ vPc = "execute"
    /\ \E doc \in (IF vReq.query = "text" THEN Documents ELSE {<<>>}),
          nval \in 0..MaxValidationErrors, engine \in EngineOutcomes :
          LET ex == IF vReq.protocol = "multipart-subscription"
                    THEN Subscribe(vReq.query, doc, vReq.operation_name, nval)
                    ELSE Execute(vReq.query, doc, vAllowed, vReq.operation_name, nval, engine)
              is_strict == vReq.protocol = "http-strict"
          IN  /\ vDoc' = doc
              /\ vValidated' = IF ex.validated THEN ex.op ELSE "none"
              /\ vExecuted' = ex.executed
              /\ vRaised' = IF ex.kind \in {"result", "stream"} THEN NoException
                            ELSE [kind |-> ex.kind, op |-> ex.op, errors |-> ex.result.errors]
              /\ IF ex.kind = "result"
                 THEN /\ vResult' = ex.result
                      /\ vPc' = "respond"
                      /\ UNCHANGED <<vResp, vSubStatus>>
                 ELSE IF ex.kind = "stream"
                 THEN /\ vResult' = [data |-> "stream", errors |-> <<>>]
                      /\ vPc' = "respond"
                      /\ UNCHANGED <<vResp, vSubStatus>>
                 ELSE IF ex.kind = "GraphQLValidationError"
                 THEN /\ vSubStatus' = IF is_strict THEN 400 ELSE vSubStatus
                      /\ vResult' = ValidationErrorResult(ex.result.errors)
                      /\ vPc' = "respond"
                      /\ UNCHANGED vResp
                 ELSE IF ex.kind = "InvalidOperationTypeError"
                 THEN /\ vResp' = HTTPException(400, AsHttpErrorReason(ex.op, vMethod))
                      /\ vPc' = "done"
                      /\ UNCHANGED <<vResult, vSubStatus>>
                 ELSE /\ vResp' = HTTPException(400, <<ex.msg>>)
                      /\ vPc' = "done"
                      /\ UNCHANGED <<vResult, vSubStatus>>
    /\ UNCHANGED <<vFlavor, vMethod, vAllowGet, vIde, vContentType, vUploads, vAccept,
                   vReq, vAllowed>>
    /\ UNCHANGED <<svars, bvars, evars, gvars, wvars>>

\* run(): the streaming response for a subscription, else process_result
\* and create_response.
VRespond ==
    /\ vPc = "respond"
    /\ vResp' = IF vResult.data = "stream"
                THEN [NoResponse EXCEPT !.kind = "stream", !.status = vSubStatus]
                ELSE CreateResponse(vResult, vReq.protocol = "http-strict", vSubStatus)
    /\ vPc' = "done"
    /\ UNCHANGED <<vFlavor, vMethod, vAllowGet, vIde, vContentType, vUploads, vAccept,
                   vReq, vDoc, vAllowed, vSubStatus,
                   vResult, vValidated, vExecuted, vRaised>>
    /\ UNCHANGED <<svars, bvars, evars, gvars, wvars>>

ViewNext ==
    \/ VBegin
    \/ VParseHttpBody
    \/ VCheckRequestData
    \/ VAllowedOperationTypes
    \/ VExecuteOperation
    \/ VRespond

SpecView == ViewInit /\ [][ViewNext]_vars

----------------------------------------------------------------------------
\* Properties of the HTTP views.

\* execute_operation has been called for the request.
ExecuteOperationCalled == vExecuted # "not_called"

\* The operation definitions of a document.
NumOperations(doc) == Cardinality({i \in DOMAIN doc : doc[i].op # "fragment"})

\* C3: no mutation is executed for a GET request.  Once the allow-set is
\* handed to execute_operation it is a subset of {QUERY, SUBSCRIPTION} for GET
\* and exactly {QUERY, MUTATION, SUBSCRIPTION} for POST, whatever the
\* protocol and allow_queries_via_get; and the type of an operation that
\* reached validation or execution is in the allow-set.
C3_NoMutationViaGet ==
    (vPc = "execute" \/ ExecuteOperationCalled) =>
        /\ (vMethod = "GET" =>
               /\ vAllowed \subseteq {"query", "subscription"}
               /\ vExecuted # "mutation")
        /\ (vMethod = "POST" => vAllowed = {"query", "mutation", "subscription"})
        /\ vValidated \in vAllowed \cup {"none"}
        /\ vExecuted \in vAllowed \cup {"none", "not_called"}

\* A GET request selecting a mutation was stopped before validation.
C3_Witness ==
    /\ vPc = "done"
    /\ vMethod = "GET"
    /\ vRaised.kind = "InvalidOperationTypeError"
    /\ vRaised.op = "mutation"
    /\ vValidated = "none"
    /\ vExecuted = "none"

\* C4: when execute_operation raises InvalidOperationTypeError the request
\* ends in an HTTP error with status 405 whose reason names the disallowed
\* operation kind.
C4_InvalidOperationTypeIs405 ==
    (vPc = "done" /\ vRaised.kind = "InvalidOperationTypeError") =>
        /\ vResp.kind = "http_error"
        /\ vResp.status = 405
        /\ vResp.reason[1] = FormatOperationType(vRaised.op)

\* What run() does instead: the HTTP error names the disallowed kind and
\* the method, with status 400.
C4_InvalidOperationTypeIs400 ==
    (vPc = "done" /\ vRaised.kind = "InvalidOperationTypeError") =>
        /\ vResp.kind = "http_error"
        /\ vResp.status = 400
        /\ vResp.reason = <<FormatOperationType(vRaised.op), "are not allowed when using", vMethod>>

\* C5: a document with more than one operation and no operationName is
\* answered with status 400 and the body {"errors": [{"message": "Must
\* provide operation name if query contains multiple operations."}]}, and
\* no operation is executed.
C5_MultipleOperationsIs400 ==
    (/\ vPc = "done"
     /\ ExecuteOperationCalled
     /\ vReq.query = "text"
     /\ vReq.operation_name = "none"
     /\ NumOperations(vDoc) > 1) =>
        /\ vExecuted = "none"
        /\ vResp.kind = "json"
        /\ vResp.status = 400
        /\ ~vResp.hasData
        /\ vResp.errors = <<Error(MsgMultipleOperations, FALSE)>>

\* What holds of such a request in the base views: no operation is executed
\* and the message reaches the client, as the one error of a GraphQL
\* response with the sub-response's status, or (multipart-subscription
\* protocol) as the reason of an HTTP 400.
C5_MultipleOperationsNotExecuted ==
    (/\ vPc = "done"
     /\ ExecuteOperationCalled
     /\ vReq.query = "text"
     /\ vReq.operation_name = "none"
     /\ NumOperations(vDoc) > 1) =>
        /\ vExecuted = "none"
        /\ IF vReq.protocol = "multipart-subscription"
           THEN vResp = HTTPException(400, <<MsgMultipleOperations>>)
           ELSE /\ vResp.kind = "json"
                /\ vResp.status = 200
                /\ vResp.errors = <<Error(MsgMultipleOperations, FALSE)>>

\* C10: when execute_operation raises GraphQLValidationError the request
\* does not fail at HTTP level: the result is ExecutionResult(data=None,
\* errors=e.errors), it is answered as a GraphQL response carrying those
\* errors, and under the strict protocol the sub-response status is 400.
C10_ValidationErrorsBecomeResult ==
    vRaised.kind = "GraphQLValidationError" =>
        /\ vPc \in {"respond", "done"}
        /\ vResult = [data |-> "none", errors |-> vRaised.errors]
        /\ (vReq.protocol = "http-strict" => vSubStatus = 400)
        /\ (vReq.protocol # "http-strict" => vSubStatus = 200)
        /\ (vPc = "done" =>
               /\ vResp.kind = "json"
               /\ vResp.errors = vRaised.errors
               /\ vResp.status = vSubStatus)

\* A strict-protocol request whose document failed validation got its
\* errors in a GraphQL response with status 400.
C10_Witness ==
    /\ vPc = "done"
    /\ vRaised.kind = "GraphQLValidationError"
    /\ vValidated # "none"
    /\ Len(vRaised.errors) >= 1
    /\ vReq.protocol = "http-strict"
    /\ vResp.kind = "json"
    /\ vResp.status = 400

\* The request went through execute / execute_sync (not subscribe).
ExecuteReturned ==
    /\ ExecuteOperationCalled
    /\ vReq.protocol # "multipart-subscription"

\* C11 as stated: execute and execute_sync never raise; every failure while
\* parsing, validating or executing (a validation-error aggregate included)
\* is returned as an ExecutionResult with data=None and a single error.
C11_ExecuteNeverRaises ==
    ExecuteReturned => vRaised.kind = "none"

\* C11: execute and execute_sync raise nothing but GraphQLError and its
\* subclasses (the validation-error aggregate, the operation-type error, a
\* missing query, a bad operation name, a GraphQLError of the engine), and
\* they do raise the aggregate whenever validation finds an error and the
\* operation-type error whenever the selected type is not allowed; every
\* other exception is returned as a result with data=None and exactly one
\* error, e.g. the one for several operations without an operation name.
C11_ExecuteRaisesOnlyGraphQLErrors ==
    ExecuteReturned =>
        /\ vRaised.kind \in {"none", "GraphQLError", "GraphQLValidationError",
                             "InvalidOperationTypeError"}
        /\ (vRaised.kind = "none" /\ vExecuted = "none" =>
               /\ vResult.data = "none"
               /\ Len(vResult.errors) = 1)
        /\ (/\ vReq.query = "text"
            /\ vReq.operation_name = "none"
            /\ NumOperations(vDoc) > 1
            => /\ vRaised.kind = "none"
               /\ vResult = [data |-> "none",
                             errors |-> <<Error(MsgMultipleOperations, FALSE)>>])
        /\ (vValidated # "none" /\ vExecuted = "none" =>
               vRaised.kind = "GraphQLValidationError")

\* An exception that is not a GraphQLError was returned as a result with
\* data=None and one error: the engine raised it, or the document had
\* several operations and the request no operation name.
C11_Witness ==
    /\ ExecuteReturned
    /\ vRaised.kind = "none"
    /\ vResult.data = "none"
    /\ \/ vResult.errors = <<Error("engine", FALSE)>>
       \/ vResult.errors = <<Error(MsgMultipleOperations, FALSE)>>

\* The message of the method check.
MsgOnlyGetAndPost == "GraphQL only supports GET and POST requests."

\* C20 as stated, for the views: a request whose method is not GET, POST or
\* OPTIONS is answered with status 405, that message and an Allow header,
\* and its body is neither parsed nor executed.
C20_OtherMethods405WithAllowHeader ==
    (vPc = "done" /\ vMethod \notin {"GET", "POST", "OPTIONS"}) =>
        /\ vResp.kind = "http_error"
        /\ vResp.status = 405
        /\ vResp.reason = <<MsgOnlyGetAndPost>>
        /\ vResp.headers # "none"
        /\ vReq = NoRequest
        /\ ~ExecuteOperationCalled

\* What the views do for such a request: status 405 and the message,
\* nothing parsed or executed.
C20_OtherMethods405 ==
    (vPc = "done" /\ vMethod \notin {"GET", "POST", "OPTIONS"}) =>
        /\ vResp.kind = "http_error"
        /\ vResp.status = 405
        /\ vResp.reason = <<MsgOnlyGetAndPost>>
        /\ vReq = NoRequest
        /\ ~ExecuteOperationCalled

\* run_http_query: a method other than get and post fails with 405, the
\* message and the header Allow: GET, POST before any parameter is read.
C20_RunHttpQueryMethodCheck ==
    (bPc # "call" /\ bPc # "idle" /\ bMethod \notin {"get", "post"}) =>
        /\ bPc = "raised"
        /\ bRaised = [status |-> 405, message |-> <<MsgOnlyGetAndPost>>,
                      headers |-> "Allow: GET, POST"]
        /\ bParams = <<>>
        /\ bExecLog = <<>>

\* The request data parse_http_body returned has variables or extensions
\* that are an array or a scalar.
NonObjectRequestData ==
    /\ vReq # NoRequest
    /\ vReq.variables \in {"list", "false"} \/ vReq.extensions \in {"list", "false"}

\* C21: in both views a request whose variables or extensions is a JSON
\* array or scalar ends with HTTP 400 and the reason "Variables must be a
\* JSON object" (variables are checked first) or "Extensions must be a JSON
\* object", and execute_operation is never called for it.
C21_NonObjectVariablesIs400 ==
    (NonObjectRequestData /\ vPc # "check") =>
        /\ vPc = "done"
        /\ vResp = HTTPException(400,
                IF vReq.variables \in {"list", "false"}
                THEN <<"Variables must be a JSON object">>
                ELSE <<"Extensions must be a JSON object">>)
        /\ ~ExecuteOperationCalled
        /\ vValidated = "none"

\* A request whose variables are an object and whose extensions are the
\* scalar false was answered with 400.
C21_Witness ==
    /\ vPc = "done"
    /\ vReq # NoRequest
    /\ vReq.variables = "dict"
    /\ vReq.extensions = "false"
    /\ vResp.status = 400
    /\ vResp.reason = <<"Extensions must be a JSON object">>

UnsupportedContentType == HTTPException(400, <<"Unsupported content type">>)

\* parse_http_body is over for a POST request.
PostBodyRead == vMethod = "POST" /\ vPc \notin {"start", "parse"}

\* C23: for POST, application/json, application/graphql,
\* application/x-www-form-urlencoded and multipart/form-data bodies are read
\* into request data (or fail while being decoded), application/graphql with
\* neither variables nor operationName, and every other content type is
\* answered with 400 "Unsupported content type" and nothing is executed.
C23_ContentTypeDispatch ==
    PostBodyRead =>
        IF vContentType \in {"application/json", "application/graphql",
                             "application/x-www-form-urlencoded", "multipart/form-data"}
        THEN /\ vResp # UnsupportedContentType
             /\ (vContentType = "application/graphql" /\ vReq # NoRequest) =>
                    vReq.variables = "none" /\ vReq.operation_name = "none"
        ELSE /\ vResp.kind = "http_error" /\ vResp.status = 400
             /\ ~ExecuteOperationCalled

\* What parse_http_body of the base views does for POST: application/json is
\* decoded as JSON, multipart/form-data is read as a form when the view
\* enables multipart uploads, and every other content type,
\* application/graphql and application/x-www-form-urlencoded included, ends
\* the request with 400 before anything is executed.
C23_OnlyJsonAndUploadsAccepted ==
    PostBodyRead =>
        IF \/ vContentType = "application/json"
           \/ vContentType = "multipart/form-data" /\ vUploads
        THEN vResp # UnsupportedContentType
        ELSE /\ vPc = "done"
             /\ vReq = NoRequest
             /\ ~ExecuteOperationCalled
             /\ vResp = IF vFlavor = "sync" /\ vContentType = "multipart/mixed"
                        THEN HTTPException(400,
                                 <<"Multipart subscriptions are not supported in sync mode">>)
                        ELSE UnsupportedContentType

\* GraphQLView.dispatch_request (webob) / execute_request (chalice): the
\* response of run(), or for an HTTPException a response whose body is the
\* text of e.reason and whose status is e.status_code.
DispatchRequest(resp) ==
    IF resp.kind = "http_error"
    THEN [status |-> resp.status, json |-> FALSE, text |-> resp.reason, errors |-> <<>>]
    ELSE [status |-> resp.status, json |-> resp.kind = "json", text |-> <<>>,
          errors |-> resp.errors]

\* run() ended the request with an error status.
HttpErrorRaised == vPc = "done" /\ vResp.kind = "http_error" /\ vResp.status >= 400

\* C24: every error response of a view built on the base views carries the
\* status code of the error and a JSON body with an errors array.
C24_ErrorBodyIsJsonWithErrors ==
    HttpErrorRaised =>
        /\ DispatchRequest(vResp).status = vResp.status
        /\ DispatchRequest(vResp).json
        /\ DispatchRequest(vResp).errors # <<>>

\* What the webob and chalice views answer: the status code of the error
\* and its reason as text, not as JSON.
C24_ErrorBodyIsReasonText ==
    HttpErrorRaised =>
        /\ DispatchRequest(vResp).status \in {400, 405}
        /\ ~DispatchRequest(vResp).json
        /\ DispatchRequest(vResp).text = vResp.reason
        /\ vResp.reason # <<>>

\* The base view the request is not handled by.
OtherFlavor == IF vFlavor = "sync" THEN "async" ELSE "sync"

\* parse_http_body is over for a GET or POST request that neither asks for a
\* multipart subscription nor sends one.
PlainRequestParsed ==
    /\ vMethod \in {"GET", "POST"}
    /\ vPc \notin {"start", "parse"}
    /\ vAccept # "multipart"
    /\ vContentType # "multipart/mixed"

\* The other base view reads the same request with the same parser and
\* selects the same protocol; every later stage of run() is the same code in
\* both views and works on the request data and the protocol only.
SameInOtherFlavor ==
    /\ BodyParser(OtherFlavor, vMethod, vContentType, vUploads)
           = BodyParser(vFlavor, vMethod, vContentType, vUploads)
    /\ vReq # NoRequest => vReq.protocol = Protocol(OtherFlavor, vAccept)

\* C25: SyncBaseHTTPView.run and AsyncBaseHTTPView.run reach the same outcome
\* for the same plain request and configuration: the same error, or the same
\* protocol (classic or strict), result and sub-response status.
C25_SyncAndAsyncAgree == PlainRequestParsed => SameInOtherFlavor

\* The two views agree whenever the Accept header is a single media type.
C25_AgreeOnSingleMediaType ==
    (PlainRequestParsed /\ vAccept # "json_then_strict") => SameInOtherFlavor

\* The two views answered an Accept header that lists the strict media type
\* after another one differently: the sync view in strict mode, the async
\* view in classic mode.
C25_Diverged ==
    (PlainRequestParsed /\ vAccept = "json_then_strict" /\ vPc = "done"
         /\ vResp.kind = "json") =>
        vResp.strict = (vFlavor = "sync")

\* The position of a stage of run() in the order of its statements.
StageRank(stage) ==
    CASE stage = "start" -> 0
      [] stage = "parse" -> 1
      [] stage = "check" -> 2
      [] stage = "allow" -> 3
      [] stage = "execute" -> 4
      [] stage = "respond" -> 5
      [] OTHER -> 6

\* What the stage reached says about the stages passed.
StagesPassed ==
    /\ (StageRank(vPc) \in 1..5) => vMethod \in {"GET", "POST"} /\ vSubStatus # 0
    /\ vReq # NoRequest => StageRank(vPc) >= 2
    /\ (StageRank(vPc) \in 2..5) => vReq # NoRequest
    /\ (StageRank(vPc) \in 3..5) =>
           vReq.variables \in {"none", "dict"} /\ vReq.extensions \in {"none", "dict"}
    /\ (StageRank(vPc) \in 4..5) => ~(vMethod = "GET" /\ vIde)
    /\ StageRank(vPc) <= 4 => ~ExecuteOperationCalled /\ vResult = NoResult
    /\ StageRank(vPc) = 5 => ExecuteOperationCalled /\ vResult # NoResult
    /\ StageRank(vPc) <= 5 => vResp = NoResponse
    /\ ExecuteOperationCalled =>
           /\ vMethod \in {"GET", "POST"}
           /\ vReq # NoRequest
           /\ vReq.variables \in {"none", "dict"} /\ vReq.extensions \in {"none", "dict"}
           /\ ~(vMethod = "GET" /\ vIde)
    /\ vResp.kind \in {"json", "stream"} => ExecuteOperationCalled /\ vResult # NoResult
    /\ (vMethod = "OPTIONS" /\ vPc # "start") =>
           /\ vPc = "done"
           /\ vResp = HTTPException(200, <<>>)
           /\ vReq = NoRequest
           /\ ~ExecuteOperationCalled

\* Every step of run() moves to a later stage, and only the step that
\* leaves the stage of execute_operation sets its outcome.
StagesInOrder ==
    /\ StageRank(vPc') > StageRank(vPc)
    /\ vPc # "execute" => vExecuted' = vExecuted /\ vResult' = vResult /\ vRaised' = vRaised

\* C29: within one request the stages of run() are strictly sequential:
\* execute_operation is called at most once, only for GET or POST, after the
\* body was parsed, the variables and extensions checks passed and the IDE
\* was not rendered; a result is encoded into a response only after
\* execute_operation has returned; an OPTIONS request ends before anything
\* is parsed or executed.
C29_StagesStrictlySequential ==
    /\ []StagesPassed
    /\ [][StagesInOrder]_vars

\* A GET request ran a query and was answered with the encoded result.
C29_Witness ==
    /\ vPc = "done"
    /\ vMethod = "GET"
    /\ vExecuted = "query"
    /\ vResp.kind = "json"
    /\ vResp.status = 200

\* The allowed_operation_types _parse_and_validate was called with for the
\* request: subscribe() passes {SUBSCRIPTION}, execute() those of run().
AllowedUsed ==
    IF vReq.protocol = "multipart-subscription" THEN {"subscription"} ELSE vAllowed

\* C30: _parse_and_validate tests the selected operation's type against
\* allowed_operation_types before it runs the validation rules.  For the
\* document, operation name and allowed types of every request that
\* reached execute_operation, and every number k of violations the rules
\* would find: a type that is not allowed raises InvalidOperationTypeError
\* for that type, naming the allowed kinds, without validating, also when
\* k >= 1; an allowed type with k >= 1 raises one GraphQLValidationError
\* with the k violations; the document is returned only when the type is
\* allowed and k = 0.  The exception the request ended with agrees.
C30_TypeCheckedBeforeValidation ==
    ExecuteOperationCalled =>
        /\ \A k \in 0..(MaxValidationErrors + 2) :
               LET pv == ParseAndValidate(vReq.query, vDoc, AllowedUsed,
                                          vReq.operation_name, k)
                   t == GetOperationType(vDoc, vReq.operation_name)
               IN  /\ (vReq.query = "text" /\ t.kind = "ok") =>
                          IF t.op \notin AllowedUsed
                          THEN /\ pv.kind = "InvalidOperationTypeError"
                               /\ pv.op = t.op
                               /\ pv.only = {FormatOperationType(a) : a \in AllowedUsed}
                               /\ ~pv.validated
                          ELSE IF k >= 1
                          THEN /\ pv.kind = "GraphQLValidationError"
                               /\ Len(pv.errors) = k
                               /\ pv.validated
                          ELSE pv.kind = "ok"
                   /\ pv.kind = "ok" =>
                          /\ vReq.query = "text" /\ t.kind = "ok"
                          /\ t.op \in AllowedUsed
                          /\ k = 0
        /\ vRaised.kind = "InvalidOperationTypeError" =>
               /\ vRaised.op \notin AllowedUsed
               /\ vValidated = "none" /\ vExecuted = "none"
        /\ vValidated # "none" => vValidated \in AllowedUsed
        /\ vExecuted \notin {"none", "not_called"} => vExecuted = vValidated

\* A GET request selecting a mutation was refused for its operation type
\* and its document was not validated.
C30_Witness ==
    /\ vPc = "done"
    /\ vMethod = "GET"
    /\ vRaised.kind = "InvalidOperationTypeError"
    /\ vRaised.op = "mutation"
    /\ vValidated = "none"
    /\ NumOperations(vDoc) = 2

----------------------------------------------------------------------------
\* encode_execution_results / format_execution_result of
\* graphql_server/__init__.py.

\* Bound of the model: the number of results given to the encoder.
MaxResults == 2

\* Python's None in a list of results.
None == [tag |-> "None", data |-> "none", errors |-> <<>>, invalid |-> FALSE]

\* ExecutionResult(data, errors, invalid)
ExecutionResult(data, errors, invalid) ==
    [tag |-> "ExecutionResult", data |-> data, errors |-> errors, invalid |-> invalid]

\* The error lists of a result: none, a field error with a path, an error
\* without a path, one of each.
ErrorLists ==
    {<<>>, <<Error("e", TRUE)>>, <<Error("e", FALSE)>>, <<Error("e", TRUE), Error("f", FALSE)>>}

\* The execution results the engine builds: an invalid result has no data
\* and at least one error.
ExecutionResults ==
    {ExecutionResult(d, e, FALSE) : d \in {"none", "some"}, e \in ErrorLists}
    \cup {ExecutionResult("none", e, TRUE) : e \in ErrorLists \ {<<>>}}

\* execution_result.to_dict(format_error): "errors" when there are errors,
\* "data" unless the result is invalid.
ToDict(r) ==
    [null |-> FALSE, hasErrors |-> r.errors # <<>>, errors |-> r.errors,
     hasData |-> ~r.invalid, data |-> IF r.invalid THEN "unset" ELSE r.data]

\* The response of an absent result.
NullResponse ==
    [null |-> TRUE, hasErrors |-> FALSE, errors |-> <<>>, hasData |-> FALSE, data |-> "unset"]

\* format_execution_result(execution_result, format_error)
FormatExecutionResult(r) ==
    IF r # None
    THEN [result |-> ToDict(r), status_code |-> IF r.invalid THEN 400 ELSE 200]
    ELSE [result |-> NullResponse, status_code |-> 200]

\* min(...)
MinOf(S) == CHOOSE x \in S : \A y \in S : x <= y

FirstOf(S) == CHOOSE x \in S : \A y \in S : x <= y

\* max(status_codes)
MaxOf(S) == CHOOSE x \in S : \A y \in S : x >= y

\* encode_execution_results(execution_results, is_batch=is_batch): the
\* ServerResponse; zip(*results) raises ValueError for an empty list.
EncodeExecutionResults(execution_results, is_batch) ==
    LET results == [i \in DOMAIN execution_results |->
                        FormatExecutionResult(execution_results[i])]
        status_codes == {results[i].status_code : i \in DOMAIN results}
        result == [i \in DOMAIN results |-> results[i].result]
    IN  IF execution_results = <<>>
        THEN [body |-> "ValueError", status_code |-> 0]
        ELSE [body |-> IF is_batch THEN result ELSE result[1],
              status_code |-> MaxOf(status_codes)]

EncodeInit ==
    /\ eResults \in SeqsUpTo(ExecutionResults \cup {None}, MaxResults)
    /\ eIsBatch \in BOOLEAN
    /\ ePc = "call"
    /\ eResponse = [body |-> "unset", status_code |-> 0]
    /\ StreamIdle
    /\ ViewIdle
    /\ BatchIdle
    /\ GenIdle
    /\ WsIdle

\* One call of encode_execution_results.
Encode ==
    /\ ePc = "call"
    /\ eResponse' = EncodeExecutionResults(eResults, eIsBatch)
    /\ ePc' = IF eResults = <<>> THEN "raised" ELSE "returned"
    /\ UNCHANGED <<eResults, eIsBatch>>
    /\ UNCHANGED <<svars, vvars, bvars, gvars, wvars>>

EncodeNext ==
    \/ Encode

SpecEncode == EncodeInit /\ [][EncodeNext]_vars

\* An error without a path is among the errors of r.
HasPathlessError(r) == \E i \in DOMAIN r.errors : ~r.errors[i].path

\* C6: the status of an encoded result is 200 when all its errors carry a
\* path, when it has no errors and when it is None, and 400 when at least one
\* of its errors has no path.
C6_StatusFollowsErrorPaths ==
    (ePc = "returned" /\ Len(eResults) = 1) =>
        eResponse.status_code =
            IF eResults[1] # None /\ HasPathlessError(eResults[1]) THEN 400 ELSE 200

\* What format_execution_result does: the status is 400 exactly for a result
\* flagged invalid.
C6_StatusFollowsInvalidFlag ==
    (ePc = "returned" /\ Len(eResults) = 1) =>
        eResponse.status_code = IF eResults[1].invalid THEN 400 ELSE 200

----------------------------------------------------------------------------
\* run_http_query of graphql_server/__init__.py: one call, with the executor
\* running get_response for each entry.

\* Bound of the model: the number of entries of a batch.
MaxBatch == 2

\* The query strings of the sample requests and what they parse to:
\* definitions, whether validation passes, what the resolvers do.
Queries == {"none", "syntax_error", "{test}", "{thrower}", "{unknown}",
            "mutation{writeTest}", "query A{test} mutation B{writeTest}"}

LegacyDocument(query) ==
    IF query = "{test}"
    THEN [defs |-> <<[name |-> "none", op |-> "query"]>>, valid |-> TRUE, resolves |-> "data"]
    ELSE IF query = "{thrower}"
    THEN [defs |-> <<[name |-> "none", op |-> "query"]>>, valid |-> TRUE, resolves |-> "field_error"]
    ELSE IF query = "{unknown}"
    THEN [defs |-> <<[name |-> "none", op |-> "query"]>>, valid |-> FALSE, resolves |-> "data"]
    ELSE IF query = "mutation{writeTest}"
    THEN [defs |-> <<[name |-> "none", op |-> "mutation"]>>, valid |-> TRUE, resolves |-> "data"]
    ELSE [defs |-> <<[name |-> "A", op |-> "query"], [name |-> "B", op |-> "mutation"]>>,
          valid |-> TRUE, resolves |-> "data"]

\* The dicts of the request body and of the query string: the keys query,
\* operationName and variables (absent, or a string that is not JSON).
NoEntry == [query |-> "none", operation_name |-> "none", variables |-> "none"]

Entries ==
    {e \in [query : Queries, operation_name : {"none", "A", "B"},
            variables : {"none", "invalid_json"}] :
        /\ e.operation_name # "none" => e.query = "query A{test} mutation B{writeTest}"
        /\ e.variables # "none" => e.query = "{test}" }

QueryDatas ==
    {NoEntry, [NoEntry EXCEPT !.query = "{test}"], [NoEntry EXCEPT !.query = "mutation{writeTest}"]}

\* HttpQueryError(status_code, message, headers)
HttpQueryError(status, message, headers) ==
    [status |-> status, message |-> message, headers |-> headers]

\* get_graphql_params(data, query_data) before load_json_variables: the
\* request body takes precedence over the query string.
GetGraphqlParams(data, query_data) ==
    [query |-> IF data.query # "none" THEN data.query ELSE query_data.query,
     operation_name |-> IF data.operation_name # "none" THEN data.operation_name
                        ELSE query_data.operation_name,
     variables |-> IF data.variables # "none" THEN data.variables ELSE query_data.variables]

\* document.get_operation_type(operation_name) of the engine's document:
\* the operations map keeps the last definition of each name; without a
\* name the type of the only entry of the map, else the entry of that name.
OperationsMapNames(defs) == {defs[i].name : i \in {j \in DOMAIN defs : defs[j].op # "fragment"}}

OperationsMapGet(defs, name) ==
    IF name \in OperationsMapNames(defs)
    THEN defs[MaxOf({i \in DOMAIN defs : defs[i].op # "fragment" /\ defs[i].name = name})].op
    ELSE "none"

LegacyGetOperationType(defs, operation_name) ==
    IF operation_name = "none" /\ Cardinality(OperationsMapNames(defs)) = 1
    THEN OperationsMapGet(defs, CHOOSE n \in OperationsMapNames(defs) : TRUE)
    ELSE OperationsMapGet(defs, operation_name)

\* The operation the engine selects for execution: the only operation when
\* no name is given, else the operation of that name; "none" if there is no
\* such operation.
SelectedOperation(defs, operation_name) ==
    LET ops == {i \in DOMAIN defs : defs[i].op # "fragment"}
        named == {i \in ops : defs[i].name = operation_name}
    IN  IF operation_name = "none"
        THEN IF Cardinality(ops) = 1 THEN defs[CHOOSE i \in ops : TRUE].op ELSE "none"
        ELSE IF named # {} THEN defs[MinOf(named)].op ELSE "none"

\* document.execute(operation_name=..., variable_values=...): validation,
\* selection of the operation, execution.
DocumentExecute(doc, operation_name) ==
    IF ~doc.valid
    THEN [result |-> ExecutionResult("none", <<Error("validation", FALSE)>>, TRUE),
          executed |-> "none"]
    ELSE IF operation_name = "none" /\ NumOperations(doc.defs) > 1
    THEN [result |-> ExecutionResult("none", <<Error(MsgMultipleOperations, FALSE)>>, TRUE),
          executed |-> "none"]
    ELSE IF SelectedOperation(doc.defs, operation_name) = "none"
    THEN [result |-> ExecutionResult("none", <<Error("Unknown operation named", FALSE)>>, TRUE),
          executed |-> "none"]
    ELSE IF doc.resolves = "data"
    THEN [result |-> ExecutionResult("some", <<>>, FALSE),
          executed |-> SelectedOperation(doc.defs, operation_name)]
    ELSE [result |-> ExecutionResult("none", <<Error("field", TRUE)>>, FALSE),
          executed |-> SelectedOperation(doc.defs, operation_name)]

Returned(result, executed) ==
    [kind |-> "returned", result |-> result, error |-> NoHttpQueryError, executed |-> executed]

Raised(error) ==
    [kind |-> "raised", result |-> None, error |-> error, executed |-> "none"]

\* execute_graphql_request(schema, params, allow_only_query)
ExecuteGraphqlRequest(params, allow_only_query) ==
    IF params.query = "none"
    THEN Raised(HttpQueryError(400, <<"Must provide query string.">>, "none"))
    ELSE IF params.query = "syntax_error"
    THEN Returned(ExecutionResult("none", <<Error("Syntax Error", FALSE)>>, TRUE), "none")
    ELSE LET document == LegacyDocument(params.query)
             operation_type == LegacyGetOperationType(document.defs, params.operation_name)
             ex == DocumentExecute(document, params.operation_name)
         IN  IF allow_only_query /\ operation_type # "none" /\ operation_type # "query"
             THEN Raised(HttpQueryError(405,
                      <<"Can only perform a", operation_type, "operation from a POST request.">>,
                      "Allow: POST"))
             ELSE Returned(ex.result, ex.executed)

GetResponseNeverCatching(params, catch, allow_only_query) ==
    ExecuteGraphqlRequest(params, allow_only_query)

\* get_response(schema, params, catch_exc, allow_only_query)
GetResponse(params, catch, allow_only_query) ==
    LET r == ExecuteGraphqlRequest(params, allow_only_query) IN
    IF r.kind = "raised" /\ catch THEN Returned(None, "none") ELSE r

AllowOnlyQueryNever(request_method) == FALSE

\* allow_only_query = is_get_request
AllowOnlyQuery(request_method) == request_method = "get"

ParamsAtReversed(all_params, i) == all_params[Len(all_params) + 1 - i]

\* The params of the i-th call of get_response.
ParamsAt(all_params, i) == all_params[i]

Pending == [kind |-> "pending", result |-> None, error |-> NoHttpQueryError, executed |-> "none"]

\* The first index whose outcome is an exception, 0 if none.
FirstRaised(outcomes) ==
    IF \E i \in DOMAIN outcomes : outcomes[i].kind = "raised"
    THEN MinOf({i \in DOMAIN outcomes : outcomes[i].kind = "raised"})
    ELSE 0

BatchInit ==
    /\ bMethod \in {"get", "post", "put"}
    /\ bData \in {[kind |-> "dict", entries |-> <<e>>] : e \in Entries}
                 \cup {[kind |-> "list", entries |-> es] : es \in SeqsUpTo(Entries, MaxBatch)}
                 \cup {[kind |-> "other", entries |-> <<>>]}
    /\ bQueryData \in QueryDatas
    /\ bBatchEnabled \in BOOLEAN
    /\ bCatch \in BOOLEAN
    /\ bExecutor \in {"sync", "thread", "return_promise"}
    /\ bPc = "call"
    /\ bParams = <<>>
    /\ bPromises = <<>>
    /\ bResults = <<>>
    /\ bRaised = NoHttpQueryError
    /\ bExecLog = <<>>
    /\ StreamIdle
    /\ ViewIdle
    /\ EncodeIdle
    /\ GenIdle
    /\ WsIdle

IsBatchNonEmpty(data) == data.kind = "list" /\ data.entries # <<>>

\* is_batch = isinstance(data, list)
IsBatch(data) == data.kind = "list"

\* run_http_query lines 89-125: the checks of the method and of the shape of
\* data, then all_params.
BPrepare ==
    /\ bPc = "call"
    /\ LET is_batch == IsBatch(bData)
           extra_data == IF is_batch THEN NoEntry ELSE bQueryData
           all_params == [i \in DOMAIN bData.entries |->
                              GetGraphqlParams(bData.entries[i], extra_data)]
           fail(status, message, headers) ==
               /\ bRaised' = HttpQueryError(status, message, headers)
               /\ bPc' = "raised"
               /\ UNCHANGED bParams
       IN  IF bMethod \notin {"get", "post"}
           THEN fail(405, <<"GraphQL only supports GET and POST requests.">>, "Allow: GET, POST")
           ELSE IF bData.kind = "other"
           THEN fail(400, <<"GraphQL params should be a dict.">>, "none")
           ELSE IF is_batch /\ ~bBatchEnabled
           THEN fail(400, <<"Batch GraphQL requests are not enabled.">>, "none")
           ELSE IF bData.entries = <<>>
           THEN fail(400, <<"Received an empty list in the batch request.">>, "none")
           ELSE IF \E i \in DOMAIN all_params : all_params[i].variables = "invalid_json"
           THEN fail(400, <<"Variables are invalid JSON.">>, "none")
           ELSE /\ bParams' = all_params
                /\ bPc' = "dispatch"
                /\ UNCHANGED bRaised
    /\ UNCHANGED <<bMethod, bData, bQueryData, bBatchEnabled, bCatch, bExecutor,
                   bPromises, bResults, bExecLog>>
    /\ UNCHANGED <<svars, vvars, evars, gvars, wvars>>

\* The log entries of the calls 1..n of get_response, in that order.
LogOf(outcomes, n) == [i \in 1..n |-> [index |-> i, executed |-> outcomes[i].executed]]

\* run_http_query lines 133-154 with the SyncExecutor: execute() runs
\* get_response at once, so an HttpQueryError leaves the list comprehension.
BRunSync ==
    /\ bPc = "dispatch"
    /\ bExecutor = "sync"
    /\ LET outcomes == [i \in DOMAIN bParams |->
                            GetResponse(ParamsAt(bParams, i), bCatch, AllowOnlyQuery(bMethod))]
           k == FirstRaised(outcomes)
       IN  IF k = 0
           THEN /\ bResults' = [i \in DOMAIN outcomes |-> outcomes[i].result]
                /\ bExecLog' = LogOf(outcomes, Len(outcomes))
                /\ bPc' = "returned"
                /\ UNCHANGED bRaised
           ELSE /\ bRaised' = outcomes[k].error
                /\ bExecLog' = LogOf(outcomes, k)
                /\ bPc' = "raised"
                /\ UNCHANGED bResults
    /\ UNCHANGED <<bMethod, bData, bQueryData, bBatchEnabled, bCatch, bExecutor,
                   bParams, bPromises>>
    /\ UNCHANGED <<svars, vvars, evars, gvars, wvars>>

\* run_http_query lines 136-146 with an executor that runs get_response
\* concurrently: execute() returns a promise per entry.
BSubmit ==
    /\ bPc = "dispatch"
    /\ bExecutor = "thread"
    /\ bPromises' = [i \in DOMAIN bParams |-> Pending]
    /\ bPc' = "waiting"
    /\ UNCHANGED <<bMethod, bData, bQueryData, bBatchEnabled, bCatch, bExecutor,
                   bParams, bResults, bRaised, bExecLog>>
    /\ UNCHANGED <<svars, vvars, evars, gvars, wvars>>

\* run_http_query lines 127-131, 154 with return_promise: the results are
\* the promises of execute_graphql_request_as_promise, which keeps an
\* HttpQueryError inside the promise.
BReturnPromises ==
    /\ bPc = "dispatch"
    /\ bExecutor = "return_promise"
    /\ bPromises' = [i \in DOMAIN bParams |-> Pending]
    /\ bResults' = [i \in DOMAIN bParams |-> [promise |-> i]]
    /\ bPc' = "returned"
    /\ UNCHANGED <<bMethod, bData, bQueryData, bBatchEnabled, bCatch, bExecutor,
                   bParams, bRaised, bExecLog>>
    /\ UNCHANGED <<svars, vvars, evars, gvars, wvars>>

\* The executor completes the execution of one entry: any pending one.
BFinish ==
    /\ bPc = "waiting" \/ (bPc = "returned" /\ bExecutor = "return_promise")
    /\ \E i \in DOMAIN bPromises :
          /\ bPromises[i].kind = "pending"
          /\ LET outcome == GetResponse(ParamsAt(bParams, i),
                                bCatch /\ bExecutor # "return_promise",
                                AllowOnlyQuery(bMethod))
             IN  /\ bPromises' = [bPromises EXCEPT ![i] = outcome]
                 /\ bExecLog' = Append(bExecLog, [index |-> i, executed |-> outcome.executed])
    /\ UNCHANGED <<bMethod, bData, bQueryData, bBatchEnabled, bCatch, bExecutor, bPc,
                   bParams, bResults, bRaised>>
    /\ UNCHANGED <<svars, vvars, evars, gvars, wvars>>

\* run_http_query lines 147-154: wait_until_finished, then result.get() of
\* each promise in the order of response_promises.
BGather ==
    /\ bPc = "waiting"
    /\ \A i \in DOMAIN bPromises : bPromises[i].kind # "pending"
    /\ LET k == FirstRaised(bPromises)
       IN  IF k = 0
           THEN /\ bResults' = [i \in DOMAIN bPromises |-> bPromises[i].result]
                /\ bPc' = "returned"
                /\ UNCHANGED bRaised
           ELSE /\ bRaised' = bPromises[k].error
                /\ bPc' = "raised"
                /\ UNCHANGED bResults
    /\ UNCHANGED <<bMethod, bData, bQueryData, bBatchEnabled, bCatch, bExecutor,
                   bParams, bPromises, bExecLog>>
    /\ UNCHANGED <<svars, vvars, evars, gvars, wvars>>

BatchNext ==
    \/ BPrepare
    \/ BRunSync
    \/ BSubmit
    \/ BReturnPromises
    \/ BFinish
    \/ BGather

SpecBatch == BatchInit /\ [][BatchNext]_vars

----------------------------------------------------------------------------
\* Properties of run_http_query.

\* The outcome of executing data[i] on its own.
ExpectedOutcome(i) ==
    GetResponse(GetGraphqlParams(bData.entries[i],
                                 IF bData.kind = "list" THEN NoEntry ELSE bQueryData),
                bCatch /\ bExecutor # "return_promise",
                bMethod = "get")

\* C8: for a batch of n >= 1 entries the returned results and params both
\* have length n, and results[i] is the outcome of executing data[i], in
\* whatever order the executor completes the executions (with return_promise
\* results[i] is the promise of entry i, settled with that outcome).
C8_BatchResultsInRequestOrder ==
    (bPc = "returned" /\ bData.kind = "list") =>
        /\ Len(bData.entries) >= 1
        /\ Len(bResults) = Len(bData.entries)
        /\ Len(bParams) = Len(bData.entries)
        /\ \A i \in DOMAIN bData.entries :
               /\ bParams[i] = GetGraphqlParams(bData.entries[i], NoEntry)
               /\ IF bExecutor = "return_promise"
                  THEN /\ bResults[i].promise = i
                       /\ bPromises[i].kind # "pending" => bPromises[i] = ExpectedOutcome(i)
                  ELSE bResults[i] = ExpectedOutcome(i).result

\* A batch of two entries with different results was returned after the
\* executor completed the second entry first.
C8_Witness ==
    /\ bPc = "returned"
    /\ bExecutor = "thread"
    /\ bData.kind = "list"
    /\ Len(bResults) >= 2
    /\ Len(bExecLog) >= 2
    /\ bExecLog[1].index = 2
    /\ bResults[1] # bResults[2]

\* The type of the operation entry i selects, "none" when its query is
\* missing or does not parse or selects no operation.
SelectedType(i) ==
    IF bParams[i].query \in {"none", "syntax_error"} THEN "none"
    ELSE SelectedOperation(LegacyDocument(bParams[i].query).defs, bParams[i].operation_name)

\* The engine executed an operation of type op for entry i.
Ran(i, op) == \E k \in DOMAIN bExecLog : bExecLog[k].index = i /\ bExecLog[k].executed = op

MutationViaGetError ==
    HttpQueryError(405, <<"Can only perform a", "mutation", "operation from a POST request.">>,
                   "Allow: POST")

\* The call of run_http_query is over and it ran get_response itself.
CallOver == bPc \in {"returned", "raised"} /\ bExecutor \in {"sync", "thread"}

\* C9 as stated: a GET request whose selected operation is a mutation always
\* fails with HttpQueryError 405, "Can only perform a mutation operation from
\* a POST request.", Allow: POST, and the mutation is not executed.
C9_GetMutationAlwaysFails ==
    (/\ CallOver
     /\ bMethod = "get"
     /\ Len(bParams) = 1
     /\ SelectedType(1) = "mutation") =>
        /\ bPc = "raised"
        /\ bRaised = MutationViaGetError
        /\ ~Ran(1, "mutation")

\* C9 with the catch option taken into account: a mutation selected by a GET
\* request is never executed; the call fails with the 405 error when catch is
\* false and returns None for the request when catch is true (with
\* return_promise the request's promise is rejected with the 405 error); the
\* same request via POST executes the mutation; a GET request whose document
\* holds a mutation but whose operationName selects a query executes the
\* query.
C9_GetMutationGated ==
    \A i \in DOMAIN bParams :
        LET single == Len(bParams) = 1
            document == LegacyDocument(bParams[i].query)
        IN  /\ (bMethod = "get" /\ SelectedType(i) = "mutation") =>
                   /\ ~Ran(i, "mutation")
                   /\ (single /\ CallOver) =>
                          IF bCatch
                          THEN bPc = "returned" /\ bResults = <<None>>
                          ELSE bPc = "raised" /\ bRaised = MutationViaGetError
                   /\ (bExecutor = "return_promise" /\ bPromises # <<>>
                           /\ bPromises[i].kind # "pending") =>
                          bPromises[i] = Raised(MutationViaGetError)
            /\ (bMethod = "post" /\ SelectedType(i) = "mutation" /\ document.valid
                    /\ single /\ CallOver) =>
                   /\ bPc = "returned"
                   /\ bResults[1] # None /\ ~bResults[1].invalid
                   /\ Ran(1, "mutation")
            /\ (bMethod = "get" /\ SelectedType(i) = "query" /\ document.valid
                    /\ NumOperations(document.defs) > 1 /\ single /\ CallOver) =>
                   /\ bPc = "returned"
                   /\ bResults[1] # None /\ ~bResults[1].invalid
                   /\ Ran(1, "query") /\ ~Ran(1, "mutation")

\* A GET request selecting the mutation of a two-operation document by its
\* operationName failed with the 405 error.
C9_Witness ==
    /\ bPc = "raised"
    /\ bMethod = "get"
    /\ ~bCatch
    /\ Len(bParams) = 1
    /\ bParams[1].operation_name = "B"
    /\ SelectedType(1) = "mutation"
    /\ bRaised = MutationViaGetError
    /\ ~Ran(1, "mutation")

\* C22: for a get or post call of run_http_query whose data is a list, with
\* batching disabled the call fails with HttpQueryError 400 "Batch GraphQL
\* requests are not enabled." whatever the length of the list, and no entry
\* is turned into params or executed; with batching enabled an empty list
\* fails with HttpQueryError 400 "Received an empty list in the batch
\* request."
C22_BatchDisabledOrEmptyIs400 ==
    (bPc # "call" /\ bMethod \in {"get", "post"} /\ bData.kind = "list") =>
        /\ ~bBatchEnabled =>
               /\ bPc = "raised"
               /\ bRaised = HttpQueryError(400, <<"Batch GraphQL requests are not enabled.">>,
                                           "none")
               /\ bParams = <<>> /\ bPromises = <<>> /\ bExecLog = <<>> /\ bResults = <<>>
        /\ (bBatchEnabled /\ bData.entries = <<>>) =>
               /\ bPc = "raised"
               /\ bRaised = HttpQueryError(400,
                                <<"Received an empty list in the batch request.">>, "none")
               /\ bParams = <<>> /\ bPromises = <<>> /\ bExecLog = <<>> /\ bResults = <<>>

\* An empty list was rejected with batching disabled.
C22_Witness ==
    /\ bPc = "raised"
    /\ bMethod = "post"
    /\ bData.kind = "list"
    /\ bData.entries = <<>>
    /\ ~bBatchEnabled
    /\ bRaised.message = <<"Batch GraphQL requests are not enabled.">>

\* An empty list was rejected with batching enabled.
C22_WitnessEnabledEmpty ==
    /\ bPc = "raised"
    /\ bData.kind = "list"
    /\ bData.entries = <<>>
    /\ bBatchEnabled
    /\ bRaised.message = <<"Received an empty list in the batch request.">>

\* What execute_graphql_request does for entry i of the call.
Execution(i) == ExecuteGraphqlRequest(bParams[i], AllowOnlyQuery(bMethod))

\* get_response was called for entry i.
Called(i) == \E k \in DOMAIN bExecLog : bExecLog[k].index = i

\* With catch=True the call returns one result per entry: None where the
\* execution of the entry raised an HttpQueryError, the entry's result
\* elsewhere, every entry having been executed.
CaughtAsNone ==
    /\ bPc = "returned"
    /\ Len(bResults) = Len(bParams)
    /\ \A i \in DOMAIN bParams :
           /\ Called(i)
           /\ bResults[i] = IF Execution(i).kind = "raised" THEN None ELSE Execution(i).result

\* With catch=False an HttpQueryError of an entry leaves run_http_query and
\* no results are returned.
Propagated ==
    (\E i \in DOMAIN bParams : Execution(i).kind = "raised") =>
        /\ bPc = "raised"
        /\ bResults = <<>>
        /\ \E i \in DOMAIN bParams : Execution(i) = Raised(bRaised)

LegacyErrorResponse(e) ==
    [status |-> e.status, json |-> TRUE, text |-> <<>>,
     errors |-> <<Error(e.message, FALSE)>>, headers |-> e.headers]

\* The legacy views answer every HttpQueryError of run_http_query with its
\* status code and a JSON body holding an errors array of one error.
C24_LegacyErrorBodyIsJson ==
    bPc = "raised" =>
        /\ LegacyErrorResponse(bRaised).status = bRaised.status
        /\ bRaised.status \in {400, 405}
        /\ LegacyErrorResponse(bRaised).json
        /\ Len(LegacyErrorResponse(bRaised).errors) = 1

----------------------------------------------------------------------------
\* subscribe / _subscribe_generator of graphql_server/runtime.py: the async
\* generator a consumer iterates, over the subscription of the engine.

\* Bound of the model: the results the underlying subscription produces.
MaxItems == 3

\* ExecutionResult(data=None, errors=[_coerce_error(exc)])
GenError(m) == [kind |-> "error", msg |-> m]

CaughtNever(class) == FALSE

\* `except Exception`: the clause of every handler of the generator.
Caught(class) == class = "Exception"

\* Where a resumed generator stops: suspended at a yield with the item it
\* yielded, or finished, normally or with the exception it let through.
Resumed(p, items, n, r) == [pc |-> p, items |-> items, next |-> n, raised |-> r]

\* An exception reaches a handler of the generator, which yields one result
\* carrying it.
Handle(class, m, n) ==
    IF Caught(class)
    THEN Resumed("at_error", <<GenError(m)>>, n, "none")
    ELSE Resumed("finished", <<>>, n, class)

\* `async with aclosing(aiter): async for result in aiter: yield ...` from
\* the n-th __anext__ of the underlying subscription on.  Leaving the block
\* awaits aiter.aclose(); what aclose raises replaces what was in flight.
IterateFrom(n, len, raiseAt, class, closeRaises) ==
    IF raiseAt = n
    THEN IF closeRaises THEN Handle("Exception", "close", n + 1)
                        ELSE Handle(class, "iteration", n + 1)
    ELSE IF n > len
    THEN IF closeRaises THEN Handle("Exception", "close", n)
                        ELSE Resumed("finished", <<>>, n, "none")
    ELSE Resumed("at_item", <<[kind |-> "item", n |-> n]>>, n + 1, "none")

\* The generator from its start: graphql_subscribe, whose exception becomes
\* a result with errors; a result with errors is raised as
\* GraphQLValidationError, which the outer handler turns into the item.
StartGenerator(setup, len, raiseAt, class, closeRaises) ==
    IF setup = "raises"
    THEN Handle(IF Caught(class) THEN "Exception" ELSE class, "Validation failed", 1)
    ELSE IF setup = "result_errors"
    THEN Handle("Exception", "Validation failed", 1)
    ELSE IF setup = "result_no_errors"
    THEN Resumed("finished", <<>>, 1, "none")
    ELSE IterateFrom(1, len, raiseAt, class, closeRaises)

\* subscribe() has returned the generator; nothing of it has run yet.
GenInit ==
    /\ gPc = "created"
    /\ gSetup \in {"aiter", "raises", "result_errors", "result_no_errors"}
    /\ gLen \in 0..MaxItems
    /\ gRaiseAt \in 0..(gLen + 1)
    /\ gExcClass \in {"Exception", "BaseException"}
    /\ gCloseRaises \in BOOLEAN
    /\ gSetup # "aiter" => gLen = 0 /\ gRaiseAt = 0 /\ ~gCloseRaises
    /\ gSetup # "raises" /\ gRaiseAt = 0 => gExcClass = "Exception"
    /\ gNext = 1
    /\ gOut = <<>>
    /\ gRaised = "none"
    /\ gClosed = FALSE
    /\ StreamIdle
    /\ ViewIdle
    /\ BatchIdle
    /\ EncodeIdle
    /\ WsIdle

\* The consumer awaits __anext__(): the generator runs to its next yield or
\* to its end.
GAnext ==
    /\ gPc \in {"created", "at_item", "at_error"}
    /\ ~gClosed /\ gRaised = "none"
    /\ LET r == IF gPc = "created"
                THEN StartGenerator(gSetup, gLen, gRaiseAt, gExcClass, gCloseRaises)
                ELSE IF gPc = "at_item"
                THEN IterateFrom(gNext, gLen, gRaiseAt, gExcClass, gCloseRaises)
                ELSE Resumed("finished", <<>>, gNext, "none")
       IN  /\ gPc' = r.pc
           /\ gOut' = gOut \o r.items
           /\ gNext' = r.next
           /\ gRaised' = r.raised
    /\ UNCHANGED <<gSetup, gLen, gRaiseAt, gExcClass, gCloseRaises, gClosed>>
    /\ UNCHANGED <<svars, vvars, bvars, evars, wvars>>

\* The consumer awaits aclose(): GeneratorExit is thrown at the yield the
\* generator is suspended at.  Inside the aclosing block aiter.aclose() is
\* awaited first; a handler that yields while the generator is being closed
\* makes aclose() raise RuntimeError.
GAclose ==
    /\ gPc \in {"created", "at_item", "at_error"}
    /\ ~gClosed /\ gRaised = "none"
    /\ gClosed' = TRUE
    /\ IF gPc = "at_item" /\ gCloseRaises
       THEN LET r == Handle("Exception", "close", gNext)
            IN  /\ gPc' = r.pc
                /\ gRaised' = IF r.pc = "at_error" THEN "RuntimeError" ELSE r.raised
       ELSE /\ gPc' = "finished"
            /\ gRaised' = "none"
    /\ UNCHANGED <<gSetup, gLen, gRaiseAt, gExcClass, gCloseRaises, gNext, gOut>>
    /\ UNCHANGED <<svars, vvars, bvars, evars, wvars>>

GenNext ==
    \/ GAnext
    \/ GAclose

SpecGen == GenInit /\ [][GenNext]_vars

\* What the consumer is to receive when only Exceptions are raised: the
\* results before the failure, then one result carrying the error.
ExpectedItems ==
    IF gSetup \in {"raises", "result_errors"}
    THEN <<[kind |-> "error", msg |-> "Validation failed"]>>
    ELSE IF gSetup = "result_no_errors"
    THEN <<>>
    ELSE LET k == IF gRaiseAt = 0 THEN gLen ELSE gRaiseAt - 1 IN
         [i \in 1..k |-> [kind |-> "item", n |-> i]]
         \o (IF gCloseRaises THEN <<[kind |-> "error", msg |-> "close"]>>
             ELSE IF gRaiseAt # 0 THEN <<[kind |-> "error", msg |-> "iteration"]>>
             ELSE <<>>)

\* C12: the generator returned by subscribe raises nothing to a consumer
\* that iterates it: whatever Exception the underlying subscription raises,
\* at setup or at any iteration, the items yielded are always a prefix of
\* the results produced before the failure, in order, followed by exactly
\* one result carrying the error, and when the generator has ended they are
\* all of them.
C12_SubscriptionErrorsBecomeFinalItem ==
    gExcClass = "Exception" /\ ~gClosed /\ gPc # "idle" =>
        /\ gRaised = "none"
        /\ IsPrefix(gOut, ExpectedItems)
        /\ (gPc = "finished" => gOut = ExpectedItems)
        /\ \A i \in DOMAIN gOut : gOut[i].kind = "error" => i = Len(gOut)

\* The underlying subscription raised at its third __anext__ or later: the
\* generator ended after the earlier results and one error result.
C12_Witness ==
    /\ gPc = "finished" /\ ~gClosed
    /\ gSetup = "aiter" /\ gExcClass = "Exception" /\ ~gCloseRaises
    /\ gRaiseAt >= 3
    /\ Len(gOut) = gRaiseAt
    /\ gOut[1] = [kind |-> "item", n |-> 1]
    /\ gOut[Len(gOut)] = [kind |-> "error", msg |-> "iteration"]
    /\ gRaised = "none"

----------------------------------------------------------------------------
\* GraphQLWSConsumer of graphql_server/channels/consumer.py with the
\* protocol handler it hands off to.  The handler base classes are not part
\* of the sources; their behaviour follows the protocol description
\* (section 4.7).

\* Bounds of the model: offered subprotocols, operation ids, minutes.
MaxOffered == 2
MaxIds == 2
MaxClock == 2

\* connection_init_wait_timeout, in minutes: timedelta(minutes=1)
ConnectionInitWaitTimeout == 1

IsIn(x, seq) == \E i \in DOMAIN seq : seq[i] = x

PickServerPreferred(accepted_subprotocols, protocols) ==
    LET idx == {j \in DOMAIN protocols : IsIn(protocols[j], accepted_subprotocols)} IN
    IF idx = {} THEN "none" ELSE protocols[MinOf(idx)]

\* pick_preferred_protocol: the protocols both sides know, sorted by their
\* index in the client's list; the first of them, or None.
PickPreferredProtocol(accepted_subprotocols, protocols) ==
    LET idx == {i \in DOMAIN accepted_subprotocols :
                    IsIn(accepted_subprotocols[i], protocols)} IN
    IF idx = {} THEN "none" ELSE accepted_subprotocols[MinOf(idx)]

SnapshotNone(subscriptions) == <<>>

\* list(self.subscriptions.keys())
Snapshot(subscriptions) == subscriptions

IsActiveNever(id, subscriptions) == FALSE

\* The operation id is in the subscriptions map.
IsActive(id, subscriptions) == IsIn(id, subscriptions)

ClosesOnTimeoutAlways(init_received) == TRUE

\* The timeout closes the socket only if no connection_init came.
ClosesOnTimeout(init_received) == ~init_received

WsInit ==
    /\ wState = "connecting"
    /\ wOffered \in SeqsUpTo({"graphql-transport-ws", "graphql-ws", "unsupported"},
                             MaxOffered)
    /\ wHandler = "none"
    /\ wCloseCode = "none"
    /\ wInit = FALSE
    /\ wTimer = "none"
    /\ wClock = 0
    /\ wSubs = <<>>
    /\ wRunning = [i \in 1..MaxIds |-> 0]
    /\ wCleanup = <<>>
    /\ wLast = [type |-> "none", id |-> 0, active |-> FALSE]
    /\ wRaised = "none"
    /\ StreamIdle
    /\ ViewIdle
    /\ BatchIdle
    /\ EncodeIdle
    /\ GenIdle

\* connect(): the handler of the preferred protocol is created and run, or
\* the connection is closed with 4406 and no handler is set.
WConnect ==
    /\ wState = "connecting"
    /\ LET preferred_protocol ==
               PickPreferredProtocol(wOffered, <<"graphql-transport-ws", "graphql-ws">>)
       IN  IF preferred_protocol = "graphql-transport-ws"
           THEN /\ wHandler' = "transport_ws"
                /\ wState' = "open"
                /\ wTimer' = "pending"
                /\ UNCHANGED wCloseCode
           ELSE IF preferred_protocol = "graphql-ws"
           THEN /\ wHandler' = "graphql_ws"
                /\ wState' = "open"
                /\ UNCHANGED <<wTimer, wCloseCode>>
           ELSE /\ wState' = "closed"
                /\ wCloseCode' = "4406"
                /\ UNCHANGED <<wHandler, wTimer>>
    /\ UNCHANGED <<wOffered, wInit, wClock, wSubs, wRunning, wCleanup, wLast, wRaised>>
    /\ UNCHANGED <<svars, vvars, bvars, evars, gvars>>

\* receive() of an open connection: a frame without text, or text that is
\* not JSON, raises ValueError and goes to handle_invalid_message; a JSON
\* message goes to handle_message.
WReceive ==
    /\ wState = "open" /\ wRaised = "none"
    /\ \E type \in {"bytes", "invalid_json", "connection_init", "subscribe", "complete"},
          id \in 1..MaxIds :
          LET close(code) == /\ wState' = "closed"
                             /\ wCloseCode' = code
                             /\ UNCHANGED <<wInit, wSubs, wRunning>>
          IN  /\ type \in {"bytes", "invalid_json", "connection_init"} => id = 1
              /\ wLast' = [type |-> type, id |-> id,
                           active |-> type = "subscribe" /\ wInit /\ IsIn(id, wSubs)]
              /\ IF type \in {"bytes", "invalid_json"}
                 THEN close("invalid_message")
                 ELSE IF type = "connection_init"
                 THEN IF wInit
                      THEN close("protocol_violation")
                      ELSE /\ wInit' = TRUE
                           /\ UNCHANGED <<wState, wCloseCode, wSubs, wRunning>>
                 ELSE IF type = "subscribe"
                 THEN IF ~wInit \/ IsActive(id, wSubs)
                      THEN close("protocol_violation")
                      ELSE /\ wSubs' = IF IsIn(id, wSubs) THEN wSubs ELSE Append(wSubs, id)
                           /\ wRunning' = [wRunning EXCEPT ![id] = IF @ < 2 THEN @ + 1 ELSE @]
                           /\ UNCHANGED <<wState, wCloseCode, wInit>>
                 ELSE IF IsIn(id, wSubs)
                 THEN /\ wSubs' = Remove(wSubs, id)
                      /\ wRunning' = [wRunning EXCEPT ![id] = IF @ > 0 THEN @ - 1 ELSE @]
                      /\ UNCHANGED <<wState, wCloseCode, wInit>>
                 ELSE UNCHANGED <<wState, wCloseCode, wInit, wSubs, wRunning>>
    /\ UNCHANGED <<wOffered, wHandler, wTimer, wClock, wCleanup, wRaised>>
    /\ UNCHANGED <<svars, vvars, bvars, evars, gvars>>

\* A subscription task ends on its own (exhausted or failed): it removes
\* itself from the subscriptions map.
WSubscriptionEnds ==
    /\ wState \in {"open", "closed", "disconnecting"}
    /\ \E id \in 1..MaxIds :
          /\ wRunning[id] > 0
          /\ wRunning' = [wRunning EXCEPT ![id] = @ - 1]
          /\ wSubs' = Remove(wSubs, id)
    /\ UNCHANGED <<wState, wOffered, wHandler, wCloseCode, wInit, wTimer, wClock,
                   wCleanup, wLast, wRaised>>
    /\ UNCHANGED <<svars, vvars, bvars, evars, gvars>>

\* A minute passes; time does not pass a timer that is due.
WTick ==
    /\ wState = "open"
    /\ wClock < MaxClock
    /\ ~(wTimer = "pending" /\ wClock >= ConnectionInitWaitTimeout)
    /\ wClock' = wClock + 1
    /\ UNCHANGED <<wState, wOffered, wHandler, wCloseCode, wInit, wTimer, wSubs,
                   wRunning, wCleanup, wLast, wRaised>>
    /\ UNCHANGED <<svars, vvars, bvars, evars, gvars>>

\* connection_init_wait_timeout has elapsed.
WTimeout ==
    /\ wTimer = "pending"
    /\ wClock >= ConnectionInitWaitTimeout
    /\ wTimer' = "fired"
    /\ IF wState = "open" /\ ClosesOnTimeout(wInit)
       THEN /\ wState' = "closed"
            /\ wCloseCode' = "policy_violation"
       ELSE UNCHANGED <<wState, wCloseCode>>
    /\ UNCHANGED <<wOffered, wHandler, wInit, wClock, wSubs, wRunning, wCleanup,
                   wLast, wRaised>>
    /\ UNCHANGED <<svars, vvars, bvars, evars, gvars>>

\* disconnect(code): self._handler.handle_disconnect(code), which starts
\* with the list of the subscriptions' keys; without a handler the
\* attribute lookup fails.
WDisconnect ==
    /\ wState \in {"open", "closed"}
    /\ IF wHandler = "none"
       THEN /\ wRaised' = "AttributeError"
            /\ wState' = "disconnected"
            /\ UNCHANGED wCleanup
       ELSE /\ wCleanup' = Snapshot(wSubs)
            /\ wState' = "disconnecting"
            /\ UNCHANGED wRaised
    /\ UNCHANGED <<wOffered, wHandler, wCloseCode, wInit, wTimer, wClock, wSubs,
                   wRunning, wLast>>
    /\ UNCHANGED <<svars, vvars, bvars, evars, gvars>>

\* One turn of the loop of handle_disconnect: await cleanup_operation(id),
\* which cancels and awaits the task of an id that is still in the map; or
\* the return after the last id.
WCleanupStep ==
    /\ wState = "disconnecting"
    /\ IF wCleanup = <<>>
       THEN /\ wState' = "disconnected"
            /\ UNCHANGED <<wCleanup, wSubs, wRunning>>
       ELSE /\ wCleanup' = Tail(wCleanup)
            /\ IF IsIn(Head(wCleanup), wSubs)
               THEN /\ wSubs' = Remove(wSubs, Head(wCleanup))
                    /\ wRunning' = [wRunning EXCEPT ![Head(wCleanup)] =
                                        IF @ > 0 THEN @ - 1 ELSE @]
               ELSE UNCHANGED <<wSubs, wRunning>>
            /\ UNCHANGED wState
    /\ UNCHANGED <<wOffered, wHandler, wCloseCode, wInit, wTimer, wClock, wLast,
                   wRaised>>
    /\ UNCHANGED <<svars, vvars, bvars, evars, gvars>>

WsNext ==
    \/ WConnect
    \/ WReceive
    \/ WSubscriptionEnds
    \/ WTick
    \/ WTimeout
    \/ WDisconnect
    \/ WCleanupStep

SpecWs == WsInit /\ [][WsNext]_vars

----------------------------------------------------------------------------
\* Properties of the WebSocket connection.

C16_DuplicateIdClosesConnection ==
    /\ \A id \in DOMAIN wRunning :
           /\ wRunning[id] <= 1
           /\ Len(SelectSeq(wSubs, LAMBDA x : x = id)) <= 1
    /\ (wLast.active =>
           /\ wState # "open"
           /\ wCloseCode = "protocol_violation")

\* A second subscribe with the id of a running subscription closed the
\* connection; the subscription is still the one registered.
C16_Witness ==
    /\ wLast.type = "subscribe" /\ wLast.active
    /\ wState = "closed"
    /\ wCloseCode = "protocol_violation"
    /\ IsIn(wLast.id, wSubs)
    /\ wRunning[wLast.id] = 1

\* The connect callback has run.
Connected == wState \notin {"idle", "connecting"}

\* C17 as stated: a client that offers both protocols, in either order,
\* gets graphql-transport-ws.
C17_TransportWsPreferred ==
    (/\ Connected
     /\ IsIn("graphql-transport-ws", wOffered)
     /\ IsIn("graphql-ws", wOffered)) => wHandler = "transport_ws"

\* C17: the server selects the first subprotocol of the client's list that
\* it supports (graphql-transport-ws only when the client names it before
\* graphql-ws or without it); when the client offers none that is supported
\* the connection is closed with 4406 and no handler is created or run.
C17_FirstOfferedSupportedSelected ==
    Connected =>
        LET HandlerOf(p) == IF p = "graphql-transport-ws" THEN "transport_ws"
                            ELSE "graphql_ws"
            supported == {i \in DOMAIN wOffered : wOffered[i] # "unsupported"}
        IN  /\ \A i \in supported :
                   (\A j \in supported : i <= j) => wHandler = HandlerOf(wOffered[i])
            /\ (supported = {} =>
                   /\ wHandler = "none"
                   /\ wCloseCode = "4406"
                   /\ wState \in {"closed", "disconnected"}
                   /\ wTimer = "none" /\ ~wInit /\ wSubs = <<>>)

\* The client offered graphql-ws before graphql-transport-ws and got
\* graphql-ws.
C17_Witness ==
    /\ wState = "open"
    /\ wOffered = <<"graphql-ws", "graphql-transport-ws">>
    /\ wHandler = "graphql_ws"

\* C18 as stated: no callback of the consumer raises to its caller.
C18_NoCallbackRaises ==
    wRaised = "none"

\* Once a handler is set, no callback raises.
C18_NoRaiseWithHandler ==
    wHandler # "none" => wRaised = "none"

\* C19: the timeout closes, with the policy-violation code, a socket that
\* is still open without connection_init when connection_init_wait_timeout
\* has elapsed, and it closes no other: a connection whose connection_init
\* arrived before is never closed by the timeout.
C19_InitTimeoutClosesOnlySilentSockets ==
    /\ (wCloseCode = "policy_violation" =>
           /\ ~wInit
           /\ wHandler = "transport_ws"
           /\ wClock >= ConnectionInitWaitTimeout)
    /\ (wHandler = "transport_ws" /\ wClock > ConnectionInitWaitTimeout /\ ~wInit =>
           wState # "open")
    /\ (wInit /\ wTimer = "fired" /\ wCloseCode = "none" /\ wLast.type = "connection_init" =>
           wState \in {"open", "disconnecting", "disconnected"})

\* The timeout closed a socket that had sent no connection_init.
C19_Witness ==
    /\ wState = "closed"
    /\ wCloseCode = "policy_violation"
    /\ wTimer = "fired"
    /\ ~wInit
    /\ wClock = ConnectionInitWaitTimeout

====
